---- MODULE Spec2Model ----
(***************************************************************************)
(* RankySwanky: relevance scoring of ranked retrieval results.             *)
(*                                                                         *)
(* The module models                                                       *)
(*   - RelevanceEvaluator / RelevanceEvaluatorWithPersistance              *)
(*     (metrics/retrieved_document_metrics_validation_criteria.py),        *)
(*   - the rubric cache (adapters/persistence, infrastructure mapper),     *)
(*   - QueryResultsBuilder, SearchEvaluationRunBuilder, the aggregation    *)
(*     functions and SearchEvaluationRunDirector.construct.                *)
(*                                                                         *)
(* Texts (property sentences, sanitized names) are sequences of            *)
(* one-character strings.  Python's None is the empty tuple and a present  *)
(* optional value x is the one-element tuple <<x>>.  Floating point        *)
(* quotients are kept as exact fractions <<numerator, denominator>>.       *)
(***************************************************************************)
EXTENDS Integers, Sequences, FiniteSets, TLC

\* ------------------------------------------------------------------------
\* Bounds of the model
\* ------------------------------------------------------------------------

\* longest property list the judge model returns for a rubric
MaxProps == 3

\* most documents scored between two set_question calls
MaxDocs == 2

\* longest list of queries handed to evaluate()
MaxQueries == 2

\* longest list handed to a setter of QueryResultsBuilder
MaxResults == 2

\* longest document list handed to an aggregate function
MaxRanked == 3

\* ------------------------------------------------------------------------
\* Optional values and fractions
\* ------------------------------------------------------------------------

None == << >>

Some(x) == << x >>

IsNone(o) == Len(o) = 0

Get(o) == o[1]

\* a / b for b > 0, as Python's true division of two ints
Frac(a, b) == << a, b >>

FracEq(x, y) == x[1] * y[2] = y[1] * x[2]

FracLe(x, y) == x[1] * y[2] <= y[1] * x[2]

FracZero == Frac(0, 1)

FracOne == Frac(1, 1)

\* ------------------------------------------------------------------------
\* Texts
\* ------------------------------------------------------------------------

Whitespace == { " " }

Alnum == { "a", "b", "c" }

\* property sentences the judge model can return
PropA == << "a" >>

PropADot == << "a", "." >>

PropBC == << "b", " ", "c" >>

Properties == { PropA, PropADot, PropBC }

RECURSIVE LStrip(_, _)
LStrip(s, chars) ==
    IF s /= << >> /\ Head(s) \in chars THEN LStrip(Tail(s), chars) ELSE s

RECURSIVE RStrip(_, _)
RStrip(s, chars) ==
    IF s /= << >> /\ s[Len(s)] \in chars
    THEN RStrip(SubSeq(s, 1, Len(s) - 1), chars)
    ELSE s

\* str.strip(chars)
Strip(s, chars) == RStrip(LStrip(s, chars), chars)

\* str.replace(c, "") for every c in chars
RECURSIVE Remove(_, _)
Remove(s, chars) ==
    IF s = << >> THEN << >>
    ELSE IF Head(s) \in chars THEN Remove(Tail(s), chars)
    ELSE << Head(s) >> \o Remove(Tail(s), chars)

\* _sanitize_property_name
sanitize_property_name(prop) ==
    LET stripped == Strip(Strip(prop, Whitespace), { "." })
        no_commas == Remove(stripped, { "," })
        underscored == [i \in 1..Len(no_commas) |->
                          IF no_commas[i] = " " THEN "_" ELSE no_commas[i]]
        no_quotes == Remove(underscored, { "'", "\"" })
    IN  [i \in 1..Len(no_quotes) |->
            IF no_quotes[i] \in Alnum \cup { "_", "-" }
            THEN no_quotes[i] ELSE "_"]


\* ------------------------------------------------------------------------
\* Inputs
\* ------------------------------------------------------------------------

Questions == { "q1", "q2" }

\* perspectives[0].to_repr_relevant_to_rewrite()
DefaultPerspective == "perspective0"

\* the list of rewritten questions the judge model returns
RewrittenLists == { << "rw1", "rw2", "rw3" >> }

\* property lists the judge model can return: every selection of the
\* property sentences, in their order above, of at most MaxProps entries
PropertyOrder == << PropA, PropADot, PropBC >>

RECURSIVE Selections(_, _)
Selections(s, n) ==
    IF s = << >> \/ n = 0 THEN { << >> }
    ELSE Selections(Tail(s), n)
         \cup { << Head(s) >> \o t : t \in Selections(Tail(s), n - 1) }

PropertyLists == Selections(PropertyOrder, MaxProps)

Range(s) == { s[i] : i \in DOMAIN s }

\* ------------------------------------------------------------------------
\* Rubric cache: keys and records
\* ------------------------------------------------------------------------

\* hashlib.sha256(text).hexdigest(): a digest stands for the text it was
\* computed from (collision free), tagged so that it is not the text itself
sha256(text) == << "sha256", text >>

default_query_id_strategy(text) == sha256(text)

default_perspective_id_strategy(perspective_text) == sha256(perspective_text)

\* a primary key that leaves the query id out
gen_eval_id_without_query(query_id, perspective_id) ==
    sha256(<< ":", perspective_id >>)

\* sha256(f"{query_id}:{perspective_id}")
default_gen_eval_id_strategy(query_id, perspective_id) ==
    sha256(<< query_id, ":", perspective_id >>)

CombinedOutput(question, perspective, rewritten_questions, properties) ==
    [ question |-> question,
      perspective |-> perspective,
      rewritten_questions |-> rewritten_questions,
      properties |-> properties ]

map_combined_output_to_gen_and_evaluate_params(combined) ==
    LET query_id == default_query_id_strategy(combined.question)
        perspective_id == default_perspective_id_strategy(combined.perspective)
    IN  [ id |-> default_gen_eval_id_strategy(query_id, perspective_id),
          query_id |-> query_id,
          perspective_id |-> perspective_id,
          rewritten_questions |-> combined.rewritten_questions,
          properties |-> combined.properties ]

\* session.get(model, primary_key_value)
get_sqlmodel_by_primary_key(table, primary_key_value) ==
    IF primary_key_value \in DOMAIN table
    THEN Some(table[primary_key_value])
    ELSE None

\* session.merge(model) for every model, then commit: upsert by primary key
save_sqlmodels_to_db(table, models) ==
    LET ids == { models[i].id : i \in DOMAIN models }
        latest(k) == CHOOSE i \in DOMAIN models :
                        /\ models[i].id = k
                        /\ \A j \in DOMAIN models : models[j].id = k => j <= i
    IN  [ k \in DOMAIN table \cup ids |->
            IF k \in ids THEN models[latest(k)] ELSE table[k] ]

\* RelevanceEvaluatorWithPersistance._load_cache: the key is built from the
\* question and perspectives[0], whatever perspective was passed
load_cache(table, question, perspective) ==
    LET persisted_model ==
            get_sqlmodel_by_primary_key(table,
                default_gen_eval_id_strategy(
                    default_query_id_strategy(question),
                    default_perspective_id_strategy(DefaultPerspective)))
    IN  IF IsNone(persisted_model) THEN None
        ELSE Some(CombinedOutput(question, "",
                      Get(persisted_model).rewritten_questions,
                      Get(persisted_model).properties))

\* RelevanceEvaluatorWithPersistance._save_cache: persists
\* self._validation_criteria (the model argument is not used)
save_cache(table, validation_criteria) ==
    save_sqlmodels_to_db(table,
        << map_combined_output_to_gen_and_evaluate_params(validation_criteria) >>)

\* QuestionWithRewritesAndCorrectnessPropsRepositorySQLite
\* .get_by_question_and_perspective: the key is built from the question and
\* perspectives[0]; the perspective argument is not used
get_by_question_and_perspective(table, question, perspective) ==
    LET persisted_model ==
            get_sqlmodel_by_primary_key(table,
                default_gen_eval_id_strategy(
                    default_query_id_strategy(question),
                    default_perspective_id_strategy(DefaultPerspective)))
    IN  IF IsNone(persisted_model) THEN None
        ELSE Some(CombinedOutput(question, "",
                      Get(persisted_model).rewritten_questions,
                      Get(persisted_model).properties))

\* QuestionWithRewritesAndCorrectnessPropsRepositorySQLite.save: the key is
\* built from params.question and params.perspective
repository_save(table, params) ==
    save_sqlmodels_to_db(table,
        << map_combined_output_to_gen_and_evaluate_params(params) >>)


\* ------------------------------------------------------------------------
\* RelevanceEvaluator
\* ------------------------------------------------------------------------

\* dict with the given keys, all mapped to v
DictOf(keys, v) == [ k \in keys |-> v ]

\* d.get(k, default)
DictGet(d, k, default) == IF k \in DOMAIN d THEN d[k] ELSE default

\* RelevanceEvaluator.reset
reset(self) ==
    [ question |-> "",
      validation_criteria |-> None,
      validation_criterias_met_history |-> DictOf({}, FALSE) ]

\* RelevanceEvaluator._extract_validation_criterias: two judge calls, then
\* the rubric is stored.  env.fail_at names the call that raises, if any.
base_extract_validation_criterias(self, question, perspective, env) ==
    IF env.fail_at = "rewrite"
    THEN [ self |-> self, raised |-> TRUE, calls |-> << "rewrite" >> ]
    ELSE IF env.fail_at = "properties"
    THEN [ self |-> self, raised |-> TRUE,
           calls |-> << "rewrite", "properties" >> ]
    ELSE [ self |-> [ self EXCEPT !.validation_criteria =
                        Some(CombinedOutput(question, perspective,
                                 env.rewritten_questions, env.properties)) ],
           raised |-> FALSE,
           calls |-> << "rewrite", "properties" >> ]

\* RelevanceEvaluatorWithPersistance._extract_validation_criterias
persisted_extract_validation_criterias(self, table, question, perspective, env) ==
    IF env.fail_at = "load"
    THEN [ self |-> self, table |-> table, raised |-> TRUE,
           calls |-> << "load" >> ]
    ELSE
      LET persisted_model == load_cache(table, question, perspective) IN
      IF ~IsNone(persisted_model)
      THEN [ self |-> [ self EXCEPT !.validation_criteria =
                          Some(CombinedOutput(question, "",
                                   Get(persisted_model).rewritten_questions,
                                   Get(persisted_model).properties)) ],
             table |-> table, raised |-> FALSE, calls |-> << "load" >> ]
      ELSE
        LET generated ==
                base_extract_validation_criterias(self, question, perspective, env)
        IN  IF generated.raised
            THEN [ self |-> generated.self, table |-> table, raised |-> TRUE,
                   calls |-> << "load" >> \o generated.calls ]
            ELSE IF env.fail_at = "save"
            THEN [ self |-> generated.self, table |-> table, raised |-> TRUE,
                   calls |-> << "load" >> \o generated.calls \o << "save" >> ]
            ELSE [ self |-> generated.self,
                   table |-> save_cache(table,
                                 Get(generated.self.validation_criteria)),
                   raised |-> FALSE,
                   calls |-> << "load" >> \o generated.calls \o << "save" >> ]

\* the _extract_validation_criterias of the evaluator's class
extract_validation_criterias(self, table, persisted, question, perspective, env) ==
    IF persisted
    THEN persisted_extract_validation_criterias(self, table, question,
                                                perspective, env)
    ELSE LET generated ==
                 base_extract_validation_criterias(self, question, perspective, env)
         IN  [ self |-> generated.self, table |-> table,
               raised |-> generated.raised, calls |-> generated.calls ]

\* the statement of set_question that builds the novelty history
initial_met_history(self) ==
    DictOf(Range(Get(self.validation_criteria).properties), FALSE)

\* set_question that keeps the entries of the old novelty history
set_question_keeping_history(self, table, persisted, question, env) ==
    LET old == self.validation_criterias_met_history
        cleared == [ self EXCEPT !.question = question,
                                 !.validation_criteria = None ]
        extracted == extract_validation_criterias(cleared, table, persisted,
                         question, DefaultPerspective, env)
    IN  IF extracted.raised THEN extracted
        ELSE [ extracted EXCEPT !.self.validation_criterias_met_history =
                 [ k \in DOMAIN old \cup DOMAIN initial_met_history(extracted.self)
                     |-> IF k \in DOMAIN old THEN old[k] ELSE FALSE ] ]

\* set_question without the reset() it starts with
set_question_without_reset(self, table, persisted, question, env) ==
    LET cleared == [ self EXCEPT !.question = question ]
        extracted == extract_validation_criterias(cleared, table, persisted,
                         question, DefaultPerspective, env)
    IN  IF extracted.raised THEN extracted
        ELSE [ extracted EXCEPT !.self.validation_criterias_met_history =
                                   initial_met_history(extracted.self) ]

\* RelevanceEvaluator.set_question
set_question(self, table, persisted, question, env) ==
    LET cleared == [ reset(self) EXCEPT !.question = question ]
        extracted == extract_validation_criterias(cleared, table, persisted,
                         question, DefaultPerspective, env)
    IN  IF extracted.raised THEN extracted
        ELSE [ extracted EXCEPT !.self.validation_criterias_met_history =
                                   initial_met_history(extracted.self) ]

\* names of the booleans the judge is asked for: the keys of
\* property_sanitized_lookup in _evaluate_document_properties
sanitized_properties(properties) ==
    { sanitize_property_name(properties[i]) : i \in DOMAIN properties }

\* EvaluatedValidationCriterias.__len__
evaluation_len(evaluation) == Cardinality(DOMAIN evaluation)

\* EvaluatedValidationCriterias.count_validation_criterias_met
count_validation_criterias_met(evaluation) ==
    Cardinality({ k \in DOMAIN evaluation : evaluation[k] })

\* _calculate_novelty with the two counts of its quotient exchanged
calculate_novelty_counts_exchanged(self, evaluation) ==
    IF evaluation_len(evaluation) = 0 THEN None
    ELSE IF IsNone(self.validation_criteria) THEN None
    ELSE
      LET met == { k \in DOMAIN evaluation : evaluation[k] }
          count_of_met_criteria == Cardinality(met)
          newly_met_criteria_count ==
              Cardinality({ k \in met :
                  ~DictGet(self.validation_criterias_met_history, k, FALSE) })
      IN  IF newly_met_criteria_count > 0
          THEN Some(Frac(count_of_met_criteria, newly_met_criteria_count))
          ELSE Some(FracZero)

\* RelevanceEvaluator._calculate_novelty: None, or Some(fraction)
calculate_novelty(self, evaluation) ==
    IF evaluation_len(evaluation) = 0 THEN None
    ELSE IF IsNone(self.validation_criteria) THEN None
    ELSE
      LET met == { k \in DOMAIN evaluation : evaluation[k] }
          count_of_met_criteria == Cardinality(met)
          newly_met_criteria_count ==
              Cardinality({ k \in met :
                  ~DictGet(self.validation_criterias_met_history, k, FALSE) })
      IN  IF count_of_met_criteria > 0
          THEN Some(Frac(newly_met_criteria_count, count_of_met_criteria))
          ELSE Some(FracZero)

\* RelevanceEvaluator._update_validation_criterias_met_history
update_validation_criterias_met_history(self, evaluation) ==
    LET met == { k \in DOMAIN evaluation : evaluation[k] }
        history == self.validation_criterias_met_history
    IN  [ self EXCEPT !.validation_criterias_met_history =
            [ k \in DOMAIN history \cup met |->
                IF k \in met THEN TRUE ELSE history[k] ] ]

\* relevance = count_validation_criterias_met() / len(evaluated_criteria);
\* None stands for the ZeroDivisionError of an empty evaluation
calculate_relevance(evaluation) ==
    IF evaluation_len(evaluation) = 0 THEN None
    ELSE Some(Frac(count_validation_criterias_met(evaluation),
                   evaluation_len(evaluation)))

RetrievedDocumentMetrics(relevance, novelty) ==
    [ relevance |-> relevance, novelty |-> novelty ]

\* create_retrieved_document_metrics that asks the judge before it looks
\* for the rubric
create_retrieved_document_metrics_judge_first(self, env) ==
    IF IsNone(self.validation_criteria)
    THEN [ self |-> self, raised |-> env.fails,
           error |-> IF env.fails THEN "JudgeError" ELSE "",
           result |-> None, calls |-> << "evaluate" >> ]
    ELSE IF env.fails
    THEN [ self |-> self, raised |-> TRUE, error |-> "JudgeError",
           result |-> None, calls |-> << "evaluate" >> ]
    ELSE
      LET relevance == calculate_relevance(env.evaluation) IN
      IF IsNone(relevance)
      THEN [ self |-> self, raised |-> TRUE, error |-> "ZeroDivisionError",
             result |-> None, calls |-> << "evaluate" >> ]
      ELSE
        LET novelty == calculate_novelty(self, env.evaluation) IN
        [ self |-> update_validation_criterias_met_history(self, env.evaluation),
          raised |-> FALSE, error |-> "",
          result |-> Some(RetrievedDocumentMetrics(Get(relevance),
                        IF IsNone(novelty) THEN FracZero ELSE Get(novelty))),
          calls |-> << "evaluate" >> ]

\* create_retrieved_document_metrics that asks the judge a second time when
\* the first call raises
create_retrieved_document_metrics_retrying(self, env) ==
    IF IsNone(self.validation_criteria)
    THEN [ self |-> self, raised |-> FALSE, error |-> "", result |-> None,
           calls |-> << >> ]
    ELSE IF env.fails
    THEN [ self |-> self, raised |-> TRUE, error |-> "JudgeError",
           result |-> None, calls |-> << "evaluate", "evaluate" >> ]
    ELSE
      LET relevance == calculate_relevance(env.evaluation) IN
      IF IsNone(relevance)
      THEN [ self |-> self, raised |-> TRUE, error |-> "ZeroDivisionError",
             result |-> None, calls |-> << "evaluate" >> ]
      ELSE
        LET novelty == calculate_novelty(self, env.evaluation) IN
        [ self |-> update_validation_criterias_met_history(self, env.evaluation),
          raised |-> FALSE, error |-> "",
          result |-> Some(RetrievedDocumentMetrics(Get(relevance),
                        IF IsNone(novelty) THEN FracZero ELSE Get(novelty))),
          calls |-> << "evaluate" >> ]

\* create_retrieved_document_metrics that empties the novelty history when
\* the judge call raises
create_retrieved_document_metrics_clearing_history(self, env) ==
    IF IsNone(self.validation_criteria)
    THEN [ self |-> self, raised |-> FALSE, error |-> "", result |-> None,
           calls |-> << >> ]
    ELSE IF env.fails
    THEN [ self |-> [ self EXCEPT !.validation_criterias_met_history =
                                      DictOf({}, FALSE) ],
           raised |-> TRUE, error |-> "JudgeError",
           result |-> None, calls |-> << "evaluate" >> ]
    ELSE
      LET relevance == calculate_relevance(env.evaluation) IN
      IF IsNone(relevance)
      THEN [ self |-> self, raised |-> TRUE, error |-> "ZeroDivisionError",
             result |-> None, calls |-> << "evaluate" >> ]
      ELSE
        LET novelty == calculate_novelty(self, env.evaluation) IN
        [ self |-> update_validation_criterias_met_history(self, env.evaluation),
          raised |-> FALSE, error |-> "",
          result |-> Some(RetrievedDocumentMetrics(Get(relevance),
                        IF IsNone(novelty) THEN FracZero ELSE Get(novelty))),
          calls |-> << "evaluate" >> ]

\* RelevanceEvaluator.create_retrieved_document_metrics.  env.fails: the
\* judge call raises; env.evaluation: the name -> bool mapping it returns.
\* A CombinedOutput is truthy whatever its lists hold, so only a missing
\* rubric takes the early return.
create_retrieved_document_metrics(self, env) ==
    IF IsNone(self.validation_criteria)
    THEN [ self |-> self, raised |-> FALSE, error |-> "", result |-> None,
           calls |-> << >> ]
    ELSE IF env.fails
    THEN [ self |-> self, raised |-> TRUE, error |-> "JudgeError",
           result |-> None, calls |-> << "evaluate" >> ]
    ELSE
      LET relevance == calculate_relevance(env.evaluation) IN
      IF IsNone(relevance)
      THEN [ self |-> self, raised |-> TRUE, error |-> "ZeroDivisionError",
             result |-> None, calls |-> << "evaluate" >> ]
      ELSE
        LET novelty == calculate_novelty(self, env.evaluation) IN
        [ self |-> update_validation_criterias_met_history(self, env.evaluation),
          raised |-> FALSE, error |-> "",
          result |-> Some(RetrievedDocumentMetrics(Get(relevance),
                        IF IsNone(novelty) THEN FracZero ELSE Get(novelty))),
          calls |-> << "evaluate" >> ]


\* ------------------------------------------------------------------------
\* Aggregated metrics (utils/aggregated_metrics.py)
\* ------------------------------------------------------------------------

FracAdd(x, y) == Frac(x[1] * y[2] + y[1] * x[2], x[2] * y[2])

\* sum(...) of a list of fractions
RECURSIVE FracSum(_)
FracSum(fs) ==
    IF fs = << >> THEN FracZero ELSE FracAdd(Head(fs), FracSum(Tail(fs)))

\* sum(values) / len(values) if values else 0
MeanOf(values) ==
    IF values = << >> THEN FracZero
    ELSE LET total == FracSum(values) IN Frac(total[1], total[2] * Len(values))

\* RELEVANCE_THRESHOLD = 0.5
RELEVANCE_THRESHOLD == Frac(1, 2)

\* is_relevant that also accepts a relevance equal to the threshold
is_relevant_at_threshold(metrics) ==
    FracLe(RELEVANCE_THRESHOLD, metrics.relevance)

\* RetrievedDocumentMetrics.is_relevant: relevance > RELEVANCE_THRESHOLD
is_relevant(metrics) == ~FracLe(metrics.relevance, RELEVANCE_THRESHOLD)

calculate_mean_relevance(metrics) ==
    MeanOf([ i \in DOMAIN metrics |-> metrics[i].relevance ])

\* calculate_mean_novelty that reads doc.relevance
calculate_mean_novelty_of_relevance(metrics) ==
    MeanOf([ i \in DOMAIN metrics |-> metrics[i].relevance ])

calculate_mean_novelty(metrics) ==
    MeanOf([ i \in DOMAIN metrics |-> metrics[i].novelty ])

\* the reciprocal rank taken from the last relevant document of the list
calculate_reciprocal_rank_of_last_relevant_document(documents) ==
    LET hits == { i \in DOMAIN documents :
                    /\ ~IsNone(documents[i].retrieved_document_metrics)
                    /\ is_relevant(Get(documents[i].retrieved_document_metrics)) }
    IN  IF hits = {} THEN FracZero
        ELSE LET final == CHOOSE i \in hits : \A j \in hits : j <= i
             IN  Frac(1, documents[final].rank + 1)

\* the first document, in list order, that has metrics and is relevant
\* decides: 1 / (doc.rank + 1); 0 when there is none
calculate_reciprocal_rank_of_first_relevant_document(documents) ==
    LET hits == { i \in DOMAIN documents :
                    /\ ~IsNone(documents[i].retrieved_document_metrics)
                    /\ is_relevant(Get(documents[i].retrieved_document_metrics)) }
    IN  IF hits = {} THEN FracZero
        ELSE LET first == CHOOSE i \in hits : \A j \in hits : i <= j
             IN  Frac(1, documents[first].rank + 1)

\* a per-query aggregate that leaves out the documents without metrics
calculate_per_query_retrieval_metrics_skipping(documents) ==
    LET scored_documents ==
            SelectSeq(documents,
                      LAMBDA doc : ~IsNone(doc.retrieved_document_metrics))
        metrics == [ i \in DOMAIN scored_documents |->
                       Get(scored_documents[i].retrieved_document_metrics) ]
    IN  Some([ mean_relevance |-> calculate_mean_relevance(metrics),
               mean_novelty |-> calculate_mean_novelty(metrics),
               reciprocal_rank_of_first_relevant_document |->
                   calculate_reciprocal_rank_of_first_relevant_document(
                       scored_documents) ])

\* calculate_per_query_retrieval_metrics: None stands for its ValueError
calculate_per_query_retrieval_metrics(documents) ==
    IF \E i \in DOMAIN documents : IsNone(documents[i].retrieved_document_metrics)
    THEN None
    ELSE LET metrics == [ i \in DOMAIN documents |->
                            Get(documents[i].retrieved_document_metrics) ]
         IN  Some([ mean_relevance |-> calculate_mean_relevance(metrics),
                    mean_novelty |-> calculate_mean_novelty(metrics),
                    reciprocal_rank_of_first_relevant_document |->
                        calculate_reciprocal_rank_of_first_relevant_document(
                            documents) ])

RECURSIVE Flatten(_)
Flatten(lists) ==
    IF lists = << >> THEN << >> ELSE Head(lists) \o Flatten(Tail(lists))

\* a mean reciprocal rank computed again from each query's documents
calculate_mean_reciprocal_rank_recomputed(query_results) ==
    MeanOf([ i \in DOMAIN query_results |->
               calculate_reciprocal_rank_of_first_relevant_document(
                   query_results[i].retrieved_documents) ])

\* sum of the stored per-query reciprocal ranks / len(query_results),
\* 0 for an empty list
calculate_mean_reciprocal_rank(query_results) ==
    MeanOf([ i \in DOMAIN query_results |->
               Get(query_results[i].query_metrics)
                   .reciprocal_rank_of_first_relevant_document ])

\* calculate_aggregated_retrieval_metrics: None stands for the
\* AttributeError raised on a document or a query without metrics
calculate_aggregated_retrieval_metrics(query_results) ==
    LET retrieved_documents ==
            Flatten([ i \in DOMAIN query_results |->
                        query_results[i].retrieved_documents ])
    IN  IF \/ \E i \in DOMAIN retrieved_documents :
                 IsNone(retrieved_documents[i].retrieved_document_metrics)
           \/ \E i \in DOMAIN query_results :
                 IsNone(query_results[i].query_metrics)
        THEN None
        ELSE LET metrics == [ i \in DOMAIN retrieved_documents |->
                     Get(retrieved_documents[i].retrieved_document_metrics) ]
             IN  Some([ mean_relevance |-> calculate_mean_relevance(metrics),
                        mean_novelty |-> calculate_mean_novelty(metrics),
                        mean_reciprocal_rank |->
                            calculate_mean_reciprocal_rank(query_results) ])

\* ------------------------------------------------------------------------
\* QueryResultsBuilder (builders/query_results_builder.py)
\* ------------------------------------------------------------------------

\* truth value of an optional list: None and [] are both false
Truthy(optional_list) == ~IsNone(optional_list) /\ Get(optional_list) /= << >>

\* QueryResultsBuilder.reset
query_results_builder_reset(self) ==
    [ query |-> None,
      answer |-> None,
      ranked_search_results |-> << >>,
      embeddings |-> None,
      metrics |-> None,
      retrieval_time_ms |-> None ]

\* the setters return the builder and whether they raised ValueError
set_query(self, query) ==
    [ self |-> [ self EXCEPT !.query = Some(query) ], raised |-> FALSE ]

set_ranked_search_results(self, ranked_search_results) ==
    IF Truthy(self.embeddings)
       /\ Len(Get(self.embeddings)) /= Len(ranked_search_results)
    THEN [ self |-> self, raised |-> TRUE ]
    ELSE IF Truthy(self.metrics)
            /\ Len(Get(self.metrics)) /= Len(ranked_search_results)
    THEN [ self |-> self, raised |-> TRUE ]
    ELSE [ self |-> [ self EXCEPT !.ranked_search_results = ranked_search_results ],
           raised |-> FALSE ]

set_metrics(self, metrics) ==
    IF self.ranked_search_results /= << >>
       /\ Len(self.ranked_search_results) /= Len(metrics)
    THEN [ self |-> self, raised |-> TRUE ]
    ELSE IF Truthy(self.embeddings) /\ Len(Get(self.embeddings)) /= Len(metrics)
    THEN [ self |-> self, raised |-> TRUE ]
    ELSE [ self |-> [ self EXCEPT !.metrics = Some(metrics) ], raised |-> FALSE ]

set_retrieval_time_ms(self, retrieval_time_ms) ==
    [ self |-> [ self EXCEPT !.retrieval_time_ms = Some(retrieval_time_ms) ],
      raised |-> FALSE ]

set_answer(self, answer) ==
    [ self |-> [ self EXCEPT !.answer = Some(answer) ], raised |-> FALSE ]

set_embeddings(self, embeddings) ==
    IF self.ranked_search_results /= << >>
       /\ Len(self.ranked_search_results) /= Len(embeddings)
    THEN [ self |-> self, raised |-> TRUE ]
    ELSE IF Truthy(self.metrics) /\ Len(Get(self.metrics)) /= Len(embeddings)
    THEN [ self |-> self, raised |-> TRUE ]
    ELSE [ self |-> [ self EXCEPT !.embeddings = Some(embeddings) ],
           raised |-> FALSE ]

RetrievedDocument(document_content, rank, embedding_vector, metrics) ==
    [ document_content |-> document_content,
      rank |-> rank,
      embedding_vector |-> embedding_vector,
      retrieved_document_metrics |-> metrics ]

\* the list comprehension of build() with rank=i in place of rank=i + 1
build_search_results_zero_based(self) ==
    [ i \in DOMAIN self.ranked_search_results |->
        RetrievedDocument(
            self.ranked_search_results[i],
            i - 1,
            IF Truthy(self.embeddings) THEN Get(self.embeddings)[i] ELSE << >>,
            IF Truthy(self.metrics) THEN Get(self.metrics)[i] ELSE None) ]

\* the list comprehension of build(): one RetrievedDocument per result.
\* A list index past the end stands as None: the lengths agree whenever
\* the list is indexed (the setters compare them).
build_search_results(self) ==
    [ i \in DOMAIN self.ranked_search_results |->
        RetrievedDocument(
            self.ranked_search_results[i],
            (i - 1) + 1,
            IF Truthy(self.embeddings) THEN Get(self.embeddings)[i] ELSE << >>,
            IF Truthy(self.metrics) THEN Get(self.metrics)[i] ELSE None) ]

\* build() without its check of the ranked result list
query_results_builder_build_unchecked_results(self) ==
    IF IsNone(self.query)
    THEN [ value |-> None, raised |-> TRUE, error |-> "ValueError: query" ]
    ELSE
      LET search_results == build_search_results(self)
          query_metrics == IF Truthy(self.metrics)
                           THEN calculate_per_query_retrieval_metrics(search_results)
                           ELSE None
      IN  IF Truthy(self.metrics) /\ IsNone(query_metrics)
          THEN [ value |-> None, raised |-> TRUE, error |-> "ValueError: metrics" ]
          ELSE [ value |-> Some([ query |-> Get(self.query),
                                  retrieved_documents |-> search_results,
                                  retrieval_time_ms |->
                                      IF IsNone(self.retrieval_time_ms) THEN 0
                                      ELSE Get(self.retrieval_time_ms),
                                  query_metrics |-> query_metrics ]),
                 raised |-> FALSE, error |-> "" ]

\* build() that never computes the per-query metrics
query_results_builder_build_without_query_metrics(self) ==
    IF IsNone(self.query)
    THEN [ value |-> None, raised |-> TRUE, error |-> "ValueError: query" ]
    ELSE IF self.ranked_search_results = << >>
    THEN [ value |-> None, raised |-> TRUE, error |-> "ValueError: results" ]
    ELSE [ value |-> Some([ query |-> Get(self.query),
                            retrieved_documents |-> build_search_results(self),
                            retrieval_time_ms |->
                                IF IsNone(self.retrieval_time_ms) THEN 0
                                ELSE Get(self.retrieval_time_ms),
                            query_metrics |-> None ]),
           raised |-> FALSE, error |-> "" ]

\* QueryResultsBuilder.build: value is Some(QueryResults), or None with
\* the ValueError of build() or of calculate_per_query_retrieval_metrics
query_results_builder_build(self) ==
    IF IsNone(self.query)
    THEN [ value |-> None, raised |-> TRUE, error |-> "ValueError: query" ]
    ELSE IF self.ranked_search_results = << >>
    THEN [ value |-> None, raised |-> TRUE, error |-> "ValueError: results" ]
    ELSE
      LET search_results == build_search_results(self)
          query_metrics == IF Truthy(self.metrics)
                           THEN calculate_per_query_retrieval_metrics(search_results)
                           ELSE None
      IN  IF Truthy(self.metrics) /\ IsNone(query_metrics)
          THEN [ value |-> None, raised |-> TRUE, error |-> "ValueError: metrics" ]
          ELSE [ value |-> Some([ query |-> Get(self.query),
                                  retrieved_documents |-> search_results,
                                  retrieval_time_ms |->
                                      IF IsNone(self.retrieval_time_ms) THEN 0
                                      ELSE Get(self.retrieval_time_ms),
                                  query_metrics |-> query_metrics ]),
                 raised |-> FALSE, error |-> "" ]

\* ------------------------------------------------------------------------
\* SearchEvaluationRunBuilder (builders/search_evaluation_run_builder.py)
\* ------------------------------------------------------------------------

\* TestConfiguration()
DefaultTestConfiguration ==
    [ embedding_model |-> "text-embedding-3-large",
      distance_function |-> "cosine" ]

\* SearchEvaluationRunBuilder.reset
run_builder_reset(self) ==
    [ test_configuration |-> None,
      query_results |-> << >>,
      retrieval_metrics |-> None,
      engine_name |-> None ]

set_test_configuration(self, test_configuration) ==
    [ self EXCEPT !.test_configuration = Some(test_configuration) ]

\* SearchEvaluationRunBuilder.add_query_result
add_query_result(self, query_result) ==
    [ self EXCEPT !.query_results = Append(@, query_result) ]

set_query_results(self, query_results) ==
    [ self EXCEPT !.query_results = query_results ]

set_engine_name(self, engine_name) ==
    [ self EXCEPT !.engine_name = Some(engine_name) ]

set_retrieval_metrics(self, retrieval_metrics) ==
    [ self EXCEPT !.retrieval_metrics = Some(retrieval_metrics) ]

\* a build() that fills in a default for what was not set
run_builder_build_with_defaults(self) ==
    Some([ test_configuration |->
               IF IsNone(self.test_configuration) THEN DefaultTestConfiguration
               ELSE Get(self.test_configuration),
           per_query_results |-> self.query_results,
           overall_retrieval_metrics |-> self.retrieval_metrics,
           engine_name |->
               IF IsNone(self.engine_name) THEN "default"
               ELSE Get(self.engine_name) ])

\* SearchEvaluationRunBuilder.build: Some(SearchEvaluationRun), or None for
\* its ValueError
run_builder_build(self) ==
    IF IsNone(self.test_configuration) THEN None
    ELSE IF IsNone(self.engine_name) THEN None
    ELSE Some([ test_configuration |-> Get(self.test_configuration),
                per_query_results |-> self.query_results,
                overall_retrieval_metrics |-> self.retrieval_metrics,
                engine_name |-> Get(self.engine_name) ])

\* ------------------------------------------------------------------------
\* State
\* ------------------------------------------------------------------------

VARIABLES
    evaluator,  \* the RelevanceEvaluator object: _question,
                \* _validation_criteria, _validation_criterias_met_history
    persisted,  \* TRUE: the object is a RelevanceEvaluatorWithPersistance
    table,      \* gen_and_evaluate_question_parameters: primary key -> row
    last,       \* the last call on the evaluator and what it returned
    setq,       \* the most recent set_question call, as the caller saw it
    scored,     \* the documents scored since then, as the judge saw them
    engines,    \* RankySwanky.engines: the registered names, in dict order
    queries,    \* the list of queries handed to evaluate()
    tasks,      \* engine name -> its _evaluate_single_retriever thread
    returned,   \* engine name -> what its retriever returned, query by query
    outcome,    \* what evaluate() gave its caller
    judge,      \* the judge model: whether it answers the same prompt the
                \* same way, and the answers it has given so far
    puts,       \* (question, perspective) -> the rubric last saved for it
    repo,       \* the last call on the repository and what it returned
    qrb,        \* a QueryResultsBuilder object called directly
    qrb_ghost,  \* which of its lists were set, and whether it built, since
                \* the last reset()
    qrb_last,   \* the last call on that builder and what it returned
    doc_list,   \* a list of RetrievedDocument handed to the aggregate functions
    query_list, \* a list of QueryResults handed to the run-level aggregate
    computed,   \* the last aggregate function applied and its value
    srb,        \* a SearchEvaluationRunBuilder object called directly
    srb_ghost,  \* setter name -> the value it was last given, since the
                \* last reset()
    srb_last,   \* the last call on that builder and what it returned
    writers,    \* engine name -> its save_sqlmodels_to_db call on the
                \* shared table: where it is and what its session holds
    relevancy_scores, \* a list of relevance values handed to the gain
                \* functions of retrieved_documents_for_query_builder.py
    gain,       \* the last gain function applied and its value
    relations,  \* TransitiveReasoner.relations: name -> set of names
    reasoned    \* the last call on the reasoner, the direct relations
                \* before it and what it returned

evaluator_vars == << evaluator, persisted, last, setq, scored >>

run_vars == << engines, queries, tasks, returned, outcome, judge >>

repository_vars == << puts, repo >>

\* the state of the objects exercised on their own
query_builder_vars == << qrb, qrb_ghost, qrb_last >>

metrics_vars == << doc_list, query_list, computed >>

run_builder_vars == << srb, srb_ghost, srb_last >>

cache_put_vars == << writers >>

gain_vars == << relevancy_scores, gain >>

reasoner_vars == << relations, reasoned >>

aside_vars == << cache_put_vars, gain_vars, reasoner_vars >>

side_vars == << repository_vars, query_builder_vars, metrics_vars,
               run_builder_vars, aside_vars >>

vars == << evaluator, persisted, table, last, setq, scored,
          engines, queries, tasks, returned, outcome, judge, puts, repo,
          qrb, qrb_ghost, qrb_last, doc_list, query_list, computed,
          srb, srb_ghost, srb_last, writers, relevancy_scores, gain,
          relations, reasoned >>

\* where a set_question call can fail: the cache read, either judge call,
\* the cache write (the cache calls only with persistence)
FailurePoints(is_persisted) ==
    { "none", "rewrite", "properties" }
    \cup IF is_persisted THEN { "load", "save" } ELSE {}

\* positions of the property list that a judge answer declares satisfied
satisfied_positions(properties, evaluation) ==
    { i \in DOMAIN properties :
        evaluation[sanitize_property_name(properties[i])] }

\* the row of the table for a (question, perspective) pair, if any
row_for(rows, question, perspective) ==
    LET found == { r \in Range(rows) :
                     /\ r.query_id = sha256(question)
                     /\ r.perspective_id = sha256(perspective) }
    IN  IF found = {} THEN None ELSE Some(CHOOSE r \in found : TRUE)

\* ------------------------------------------------------------------------
\* Calls on one evaluator
\* ------------------------------------------------------------------------

NoCall == [ op |-> "init", raised |-> FALSE, error |-> "", result |-> None,
            calls |-> << >>, evaluation |-> DictOf({}, FALSE) ]

NothingScored == [ count |-> 0, before |-> {}, now |-> {} ]

\* a judge that may answer the same prompt differently each time
AnyJudge ==
    [ deterministic |-> FALSE,
      rewrites |-> DictOf({}, << >>),
      properties |-> DictOf({}, << >>),
      evaluations |-> DictOf({}, << >>) ]

\* a judge that answers the same prompt the same way every time
DeterministicJudge == [ AnyJudge EXCEPT !.deterministic = TRUE ]

\* evaluate() has not been called
NotCalled == [ status |-> "idle", runs |-> << >>, error |-> "" ]

\* no call on the repository yet
NoRepositoryCall ==
    [ op |-> "init", question |-> "", perspective |-> "",
      rewritten_questions |-> << >>, properties |-> << >>, result |-> None ]

\* the repository has not been called directly
RepositoryIdle ==
    /\ puts = << >>
    /\ repo = NoRepositoryCall

\* no call on the directly called QueryResultsBuilder yet
NoBuilderCall ==
    [ op |-> "init", raised |-> FALSE, value |-> None, length |-> 0,
      built_before |-> FALSE ]

\* nothing set and nothing built since reset()
FreshGhost == [ set |-> {}, built |-> FALSE ]

\* QueryResultsBuilder(): __init__ calls reset()
QueryBuilderIdle ==
    /\ qrb = query_results_builder_reset(<< >>)
    /\ qrb_ghost = FreshGhost
    /\ qrb_last = NoBuilderCall

\* no aggregate function has been applied
NotComputed ==
    [ op |-> "init", raised |-> FALSE, mean_relevance |-> FracZero,
      mean_novelty |-> FracZero, reciprocal_rank |-> FracZero,
      value |-> None ]

\* the aggregate functions are not called directly
MetricsIdle ==
    /\ doc_list = << >>
    /\ query_list = << >>
    /\ computed = NotComputed

\* the objects exercised on their own are untouched
\* no call on the directly called SearchEvaluationRunBuilder yet
NoRunBuilderCall == [ op |-> "init", raised |-> FALSE, value |-> None ]

\* SearchEvaluationRunBuilder(): __init__ calls reset()
RunBuilderIdle ==
    /\ srb = run_builder_reset(<< >>)
    /\ srb_ghost = DictOf({}, None)
    /\ srb_last = NoRunBuilderCall

\* no thread is saving to the shared table on its own
CachePutsIdle == writers = << >>

\* no gain function has been applied
NoGain == [ op |-> "init", value |-> FracZero ]

GainIdle ==
    /\ relevancy_scores = << >>
    /\ gain = NoGain

\* no call on the reasoner yet
NoReasonerCall ==
    [ op |-> "init", a |-> "", b |-> "", before |-> {}, value |-> 0 ]

\* TransitiveReasoner(): an empty relation set
ReasonerIdle ==
    /\ relations = << >>
    /\ reasoned = NoReasonerCall

AsideIdle == CachePutsIdle /\ GainIdle /\ ReasonerIdle

SideIdle ==
    /\ RepositoryIdle /\ QueryBuilderIdle /\ MetricsIdle /\ RunBuilderIdle
    /\ AsideIdle

InitEvaluator ==
    /\ evaluator = reset([ question |-> "" ])
    /\ persisted \in BOOLEAN
    /\ table = DictOf({}, None)
    /\ last = NoCall
    /\ setq = [ question |-> "", raised |-> FALSE, had_rubric |-> FALSE,
                had_met |-> FALSE, cached_before |-> None, generated |-> None ]
    /\ scored = NothingScored
    /\ engines = << >>
    /\ queries = << >>
    /\ tasks = << >>
    /\ returned = << >>
    /\ outcome = NotCalled
    /\ judge = AnyJudge
    /\ SideIdle

\* evaluator.reset()
Reset ==
    /\ evaluator' = reset(evaluator)
    /\ last' = [ NoCall EXCEPT !.op = "reset" ]
    /\ scored' = NothingScored
    /\ UNCHANGED << persisted, table, setq >>
    /\ UNCHANGED << run_vars, side_vars >>

\* the judge is asked for a rubric unless the cache answers or fails first
judge_is_asked(rows, is_persisted, question, fail_at) ==
    IF is_persisted
    THEN fail_at /= "load" /\ IsNone(load_cache(rows, question, DefaultPerspective))
    ELSE TRUE

\* evaluator.set_question(question); the judge and the cache answer as env
SetQuestion ==
    \E question \in Questions, fail_at \in FailurePoints(persisted) :
    \E rewritten_questions \in
          IF judge_is_asked(table, persisted, question, fail_at)
             /\ fail_at /= "rewrite"
          THEN RewrittenLists ELSE { << >> } :
    \E properties \in
          IF judge_is_asked(table, persisted, question, fail_at)
             /\ fail_at \notin { "rewrite", "properties" }
          THEN PropertyLists ELSE { << >> } :
        LET env == [ fail_at |-> fail_at,
                     rewritten_questions |-> rewritten_questions,
                     properties |-> properties ]
            done == set_question(evaluator, table, persisted, question, env)
        IN  /\ evaluator' = done.self
            /\ table' = done.table
            /\ last' = [ NoCall EXCEPT !.op = "set_question",
                                       !.raised = done.raised,
                                       !.error = IF done.raised THEN fail_at
                                                 ELSE "",
                                       !.calls = done.calls ]
            /\ setq' = [ question |-> question,
                         raised |-> done.raised,
                         had_rubric |-> ~IsNone(evaluator.validation_criteria),
                         had_met |-> \E k \in DOMAIN
                                 evaluator.validation_criterias_met_history :
                                 evaluator.validation_criterias_met_history[k],
                         cached_before |->
                            row_for(table, question, DefaultPerspective),
                         generated |->
                            IF judge_is_asked(table, persisted, question, fail_at)
                               /\ fail_at \notin { "rewrite", "properties" }
                            THEN Some([ rewritten_questions |-> rewritten_questions,
                                        properties |-> properties ])
                            ELSE None ]
            /\ scored' = NothingScored
            /\ UNCHANGED persisted
            /\ UNCHANGED << run_vars, side_vars >>

\* evaluator.create_retrieved_document_metrics(context); the judge answers
\* with one boolean per sanitized property name, or fails
Score ==
    /\ scored.count < MaxDocs
    /\ \E fails \in BOOLEAN :
       \E evaluation \in
            [ IF IsNone(evaluator.validation_criteria) \/ fails THEN {}
              ELSE sanitized_properties(
                       Get(evaluator.validation_criteria).properties)
              -> BOOLEAN ] :
        LET done == create_retrieved_document_metrics(evaluator,
                        [ fails |-> fails, evaluation |-> evaluation ])
        IN  /\ evaluator' = done.self
            /\ last' = [ op |-> "score", raised |-> done.raised,
                         error |-> done.error,
                         result |-> done.result, calls |-> done.calls,
                         evaluation |-> evaluation ]
            /\ scored' =
                 IF IsNone(done.result) THEN scored
                 ELSE [ count |-> scored.count + 1,
                        before |-> scored.now,
                        now |-> scored.now \cup satisfied_positions(
                                   Get(evaluator.validation_criteria).properties,
                                   evaluation) ]
            /\ UNCHANGED << persisted, table, setq >>
            /\ UNCHANGED << run_vars, side_vars >>

NextEvaluator == Reset \/ SetQuestion \/ Score

SpecEvaluator == InitEvaluator /\ [][NextEvaluator]_vars

\* ------------------------------------------------------------------------
\* RankySwanky.evaluate: one thread per registered engine, each running
\* SearchEvaluationRunDirector.construct (main.py,
\* builders/search_evaluation_run_director.py)
\* ------------------------------------------------------------------------

\* all lists over a set, up to a length
RECURSIVE ListsUpTo(_, _)
ListsUpTo(elements, n) ==
    IF n = 0 THEN { << >> }
    ELSE LET shorter == ListsUpTo(elements, n - 1)
         IN  shorter \cup { Append(l, x) : l \in shorter, x \in elements }

\* several engines are registered: their threads run concurrently
Concurrent == Len(engines) > 1

\* the lists of queries a caller hands to evaluate()
QueryLists ==
    IF Concurrent THEN { << "q1" >>, << "q1", "q2" >> }
    ELSE ListsUpTo(Questions, MaxQueries)

\* what a retriever can return for a query: ranked document texts
RetrieverResults ==
    IF Concurrent THEN { << "d1" >>, << "d2", "d1" >> }
    ELSE { << >>, << "d1" >>, << "d2", "d1" >> }

\* round((time.time() - start_time) * 1000)
ElapsedTimes == { 4 }

\* the property lists the judge writes during a run
RunPropertyLists == { << >>, << PropA, PropBC >> }

\* the objects _evaluate_single_retriever creates, and the locals of
\* construct at the top of its loop
NewTask ==
    [ pc |-> "retrieve",
      query_index |-> 1,
      results |-> << >>,
      metrics |-> << >>,
      query_results |-> << >>,
      builder |-> run_builder_reset(<< >>),
      query_results_builder |-> query_results_builder_reset(<< >>),
      relevance_evaluator |-> reset([ question |-> "" ]),
      run |-> None,
      error |-> "",
      completed_as |-> 0,
      trace |-> << >> ]

\* a call made by the task: its name, the position of the query it is for
\* and, for a call about one document, the position of the document
call(op, query, document) ==
    [ op |-> op, query |-> query, document |-> document ]

calls_of(names, query, document) ==
    [ i \in DOMAIN names |-> call(names[i], query, document) ]

\* the task after it made the calls
logged(task, calls) == [ task EXCEPT !.trace = @ \o calls ]

\* a list comprehension that takes the results from the end of the list
next_document_from_the_end(task) == Len(task.results) - Len(task.metrics)

\* the list comprehension of build_query_result_object: the position in
\* results of the document that is scored next
next_document(task) == Len(task.metrics) + 1

\* every engine task reading the evaluator of the first engine's task
evaluator_of_first_engine(all_tasks, e) ==
    all_tasks[engines[1]].relevance_evaluator

\* _evaluate_single_retriever: each call creates its own RelevanceEvaluator
own_evaluator(all_tasks, e) == all_tasks[e].relevance_evaluator

\* the answers of the judge to a prompt: what it answered before when it
\* is deterministic and has seen the prompt, any answer otherwise
judge_answers(memo, prompt, answers) ==
    IF judge.deterministic /\ prompt \in DOMAIN memo
    THEN { memo[prompt] } ELSE answers

\* the judge has given an answer to a prompt
remember(memo, prompt, answer) ==
    IF ~judge.deterministic \/ prompt \in DOMAIN memo THEN memo
    ELSE [ k \in DOMAIN memo \cup { prompt } |->
             IF k = prompt THEN answer ELSE memo[k] ]

\* the table as a _load_cache that found no row for the question saw it
table_without(rows, question) ==
    LET key == default_gen_eval_id_strategy(
                   default_query_id_strategy(question),
                   default_perspective_id_strategy(DefaultPerspective))
    IN  [ k \in DOMAIN rows \ { key } |-> rows[k] ]

\* a construct that catches the error and builds a run from the queries
\* completed so far
Failed_with_partial_run(task, error) ==
    [ task EXCEPT !.pc = "done",
                  !.error = error,
                  !.run = run_builder_build(
                      set_engine_name(
                          set_query_results(
                              set_test_configuration(
                                  run_builder_reset(task.builder),
                                  DefaultTestConfiguration),
                              task.query_results),
                          "default")) ]

\* a task that raised: the exception leaves the thread
Failed(task, error) == [ task EXCEPT !.pc = "failed", !.error = error ]

\* RankySwanky(retriever): the instance holds the engine "default"
InitRun ==
    /\ engines = << "default" >>
    /\ queries = << >>
    /\ tasks = << >>
    /\ returned = << >>
    /\ outcome = NotCalled
    /\ judge = AnyJudge
    /\ table = DictOf({}, None)
    /\ evaluator = reset([ question |-> "" ])
    /\ persisted = TRUE
    /\ last = NoCall
    /\ setq = [ question |-> "", raised |-> FALSE, had_rubric |-> FALSE,
                had_met |-> FALSE, cached_before |-> None, generated |-> None ]
    /\ scored = NothingScored
    /\ SideIdle

\* evaluate(queries): aevaluate starts one thread per engine
Evaluate ==
    /\ outcome.status = "idle"
    /\ \E input \in QueryLists :
        /\ queries' = input
        /\ tasks' = [ e \in Range(engines) |-> NewTask ]
        /\ returned' = [ e \in Range(engines) |-> << >> ]
        /\ outcome' = [ outcome EXCEPT !.status = "running" ]
    /\ UNCHANGED << engines, table, judge >>
    /\ UNCHANGED << evaluator_vars, side_vars >>

\* construct, top of the loop body: the retriever is called and
\* build_query_result_object fills the builder up to set_retrieval_time_ms
Retrieve ==
    \E e \in DOMAIN tasks :
    /\ tasks[e].pc = "retrieve"
    /\ tasks[e].query_index <= Len(queries)
    /\ \E fails \in BOOLEAN :
       \E results \in IF fails THEN { << >> } ELSE RetrieverResults :
       \E elapsed_ms \in IF fails THEN { 0 } ELSE ElapsedTimes :
        LET task == logged(tasks[e],
                           << call("retriever", tasks[e].query_index, 0) >>)
            query == queries[task.query_index]
            with_results == set_ranked_search_results(
                query_results_builder_reset(task.query_results_builder), results)
            with_query == set_query(with_results.self, query)
            with_time == set_retrieval_time_ms(with_query.self, elapsed_ms)
        IN  IF fails
            THEN /\ tasks' = [ tasks EXCEPT ![e] = Failed(task, "RetrieverError") ]
                 /\ UNCHANGED returned
            ELSE /\ returned' = [ returned EXCEPT ![e] = Append(@, results) ]
                 /\ tasks' = [ tasks EXCEPT ![e] =
                      IF with_results.raised
                      THEN Failed([ task EXCEPT !.results = results ], "ValueError")
                      ELSE [ task EXCEPT !.pc = "set_question",
                                         !.results = results,
                                         !.query_results_builder = with_time.self ] ]
    /\ UNCHANGED << engines, queries, outcome, table, judge >>
    /\ UNCHANGED << evaluator_vars, side_vars >>

\* build_query_result_object: self._relevance_evaluator.set_question(query)
PrepareQuestion ==
    \E e \in DOMAIN tasks :
    /\ tasks[e].pc = "set_question"
    /\ LET task == tasks[e]
           query == queries[task.query_index]
       IN
       \E fail_at \in FailurePoints(TRUE) :
       \E rewritten_questions \in
             IF judge_is_asked(table, TRUE, query, fail_at) /\ fail_at /= "rewrite"
             THEN RewrittenLists ELSE { << >> } :
       \E properties \in
             IF judge_is_asked(table, TRUE, query, fail_at)
                /\ fail_at \notin { "rewrite", "properties" }
             THEN RunPropertyLists ELSE { << >> } :
        LET env == [ fail_at |-> fail_at,
                     rewritten_questions |-> rewritten_questions,
                     properties |-> properties ]
            done == set_question(own_evaluator(tasks, e), table, TRUE, query, env)
            after == logged([ task EXCEPT !.relevance_evaluator = done.self,
                                          !.metrics = << >> ],
                            << call("set_question", task.query_index, 0) >>
                            \o calls_of(done.calls, task.query_index, 0))
        IN  /\ table' = done.table
            /\ tasks' = [ tasks EXCEPT ![e] =
                 IF done.raised THEN Failed(after, fail_at)
                 ELSE [ after EXCEPT !.pc = "score" ] ]
    /\ UNCHANGED << engines, queries, returned, outcome, judge >>
    /\ UNCHANGED << evaluator_vars, side_vars >>

\* set_question up to the cache read of _extract_validation_criterias: a
\* row that is found becomes the rubric, without one the judge is asked next
LoadRubric ==
    \E e \in DOMAIN tasks :
    /\ tasks[e].pc = "set_question"
    /\ LET task == tasks[e]
           query == queries[task.query_index]
           found == ~IsNone(load_cache(table, query, DefaultPerspective))
       IN
       \E fail_at \in { "none", "load" } :
        LET env == [ fail_at |-> fail_at,
                     rewritten_questions |-> << >>,
                     properties |-> << >> ]
            done == set_question(own_evaluator(tasks, e), table, TRUE, query, env)
            started == logged(task, << call("set_question", task.query_index, 0),
                                       call("load", task.query_index, 0) >>)
            after == [ started EXCEPT !.relevance_evaluator = done.self,
                                      !.metrics = << >> ]
        IN  tasks' = [ tasks EXCEPT ![e] =
              IF fail_at = "load" THEN Failed(after, fail_at)
              ELSE IF found THEN [ after EXCEPT !.pc = "score" ]
              ELSE [ started EXCEPT !.pc = "generate" ] ]
    /\ UNCHANGED << engines, queries, returned, outcome, table, judge >>
    /\ UNCHANGED << evaluator_vars, side_vars >>

\* set_question after a cache miss: the two judge calls, then _save_cache
\* writes the row into the table as it is by then
GenerateRubric ==
    \E e \in DOMAIN tasks :
    /\ tasks[e].pc = "generate"
    /\ LET task == tasks[e]
           query == queries[task.query_index]
       IN
       \E fail_at \in { "none", "rewrite", "properties", "save" } :
       \E rewritten_questions \in
             IF fail_at /= "rewrite"
             THEN judge_answers(judge.rewrites, query, RewrittenLists)
             ELSE { << >> } :
       \E properties \in
             IF fail_at \notin { "rewrite", "properties" }
             THEN judge_answers(judge.properties, query, RunPropertyLists)
             ELSE { << >> } :
        LET env == [ fail_at |-> fail_at,
                     rewritten_questions |-> rewritten_questions,
                     properties |-> properties ]
            done == set_question(own_evaluator(tasks, e),
                        table_without(table, query), TRUE, query, env)
            after == logged([ task EXCEPT !.relevance_evaluator = done.self,
                                          !.metrics = << >> ],
                            calls_of(Tail(done.calls), task.query_index, 0))
        IN  /\ table' = IF done.raised THEN table ELSE done.table
            /\ tasks' = [ tasks EXCEPT ![e] =
                 IF done.raised THEN Failed(after, fail_at)
                 ELSE [ after EXCEPT !.pc = "score" ] ]
            /\ judge' = [ judge EXCEPT
                 !.rewrites =
                     IF fail_at = "rewrite" THEN @
                     ELSE remember(@, query, rewritten_questions),
                 !.properties =
                     IF fail_at \in { "rewrite", "properties" } THEN @
                     ELSE remember(@, query, properties) ]
    /\ UNCHANGED << engines, queries, returned, outcome >>
    /\ UNCHANGED << evaluator_vars, side_vars >>

\* the list comprehension of build_query_result_object: the next result,
\* in list order, goes through _calculate_metrics_for_a_document
ScoreDocument ==
    \E e \in DOMAIN tasks :
    /\ tasks[e].pc = "score"
    /\ Len(tasks[e].metrics) < Len(tasks[e].results)
    /\ LET task == tasks[e]
           relevance_evaluator == own_evaluator(tasks, e)
           document == task.results[next_document(task)]
           asked == ~IsNone(relevance_evaluator.validation_criteria)
           properties ==
               IF asked THEN Get(relevance_evaluator.validation_criteria).properties
               ELSE << >>
       IN
       \E fails \in BOOLEAN :
       \E evaluation \in
            IF ~asked \/ fails THEN { DictOf({}, FALSE) }
            ELSE judge_answers(judge.evaluations, << document, properties >>,
                     [ sanitized_properties(properties) -> BOOLEAN ]) :
        LET done == create_retrieved_document_metrics(relevance_evaluator,
                        [ fails |-> fails, evaluation |-> evaluation ])
            after == logged([ task EXCEPT !.relevance_evaluator = done.self ],
                            << call("score", task.query_index,
                                    next_document(task)) >>
                            \o calls_of(done.calls, task.query_index,
                                        next_document(task)))
        IN  /\ tasks' = [ tasks EXCEPT ![e] =
                 IF done.raised THEN Failed(after, done.error)
                 ELSE [ after EXCEPT !.metrics = Append(@, done.result) ] ]
            /\ judge' = [ judge EXCEPT !.evaluations =
                 IF ~asked \/ fails THEN @
                 ELSE remember(@, << document, properties >>, evaluation) ]
    /\ UNCHANGED << engines, queries, returned, outcome, table >>
    /\ UNCHANGED << evaluator_vars, side_vars >>

\* query_results.append(query_result) with the result put in front
prepend_query_result(query_results, query_result) ==
    << query_result >> \o query_results

\* construct: query_results.append(query_result)
append_query_result(query_results, query_result) ==
    Append(query_results, query_result)

\* build_query_result_object, after the scoring: set_metrics and build();
\* construct appends the result and goes to the next query
BuildQueryResult ==
    \E e \in DOMAIN tasks :
    /\ tasks[e].pc = "score"
    /\ Len(tasks[e].metrics) = Len(tasks[e].results)
    /\ LET task == tasks[e]
           with_metrics == set_metrics(task.query_results_builder, task.metrics)
           built == query_results_builder_build(with_metrics.self)
           after == [ task EXCEPT !.query_results_builder = with_metrics.self ]
           after_build == logged(after, << call("build", task.query_index, 0) >>)
       IN  tasks' = [ tasks EXCEPT ![e] =
             IF with_metrics.raised THEN Failed(after, "ValueError")
             ELSE IF built.raised THEN Failed(after_build, built.error)
             ELSE [ after_build EXCEPT
                      !.query_results =
                          append_query_result(@, Get(built.value)),
                      !.query_index = @ + 1,
                      !.pc = "retrieve" ] ]
    /\ UNCHANGED << engines, queries, returned, outcome, table, judge >>
    /\ UNCHANGED << evaluator_vars, side_vars >>

\* construct, after the loop: the aggregate and the run builder
BuildRun ==
    \E e \in DOMAIN tasks :
    /\ tasks[e].pc = "retrieve"
    /\ tasks[e].query_index > Len(queries)
    /\ LET task == tasks[e]
           aggregated_metrics ==
               calculate_aggregated_retrieval_metrics(task.query_results)
           builder ==
               IF IsNone(aggregated_metrics) THEN task.builder
               ELSE set_retrieval_metrics(
                        set_engine_name(
                            set_query_results(
                                set_test_configuration(
                                    run_builder_reset(task.builder),
                                    DefaultTestConfiguration),
                                task.query_results),
                            e),
                        Get(aggregated_metrics))
           run == run_builder_build(builder)
       IN  tasks' = [ tasks EXCEPT ![e] =
             IF IsNone(aggregated_metrics) THEN Failed(task, "AttributeError")
             ELSE IF IsNone(run)
             THEN Failed([ task EXCEPT !.builder = builder ], "ValueError")
             ELSE [ task EXCEPT
                      !.builder = builder, !.run = run, !.pc = "done",
                      !.completed_as =
                          1 + Cardinality({ x \in DOMAIN tasks :
                                              tasks[x].pc = "done" }) ] ]
    /\ UNCHANGED << engines, queries, returned, outcome, table, judge >>
    /\ UNCHANGED << evaluator_vars, side_vars >>

\* a gather that hands every caller the result of the first task
gather_repeating_first(finished) ==
    [ k \in DOMAIN engines |-> Get(finished[engines[1]].run) ]

\* a gather that collects the results in the order the tasks completed
gather_in_completion_order(finished) ==
    [ k \in DOMAIN engines |->
        Get(finished[CHOOSE e \in DOMAIN finished :
                         finished[e].completed_as = k].run) ]

\* asyncio.gather: the results in the order of the tasks, which is the
\* order of self.engines.items()
gather(finished) ==
    [ k \in DOMAIN engines |-> Get(finished[engines[k]].run) ]

\* aevaluate: every task has returned; the collection is built
EvaluateReturns ==
    /\ outcome.status = "running"
    /\ \A e \in DOMAIN tasks : tasks[e].pc = "done"
    /\ outcome' = [ status |-> "returned", runs |-> gather(tasks), error |-> "" ]
    /\ UNCHANGED << engines, queries, tasks, returned, table, judge >>
    /\ UNCHANGED << evaluator_vars, side_vars >>

\* aevaluate: gather passes on the exception of a task that raised
EvaluateRaises ==
    /\ outcome.status = "running"
    /\ \E e \in DOMAIN tasks :
        /\ tasks[e].pc = "failed"
        /\ outcome' = [ status |-> "raised", runs |-> << >>,
                        error |-> tasks[e].error ]
    /\ UNCHANGED << engines, queries, tasks, returned, table, judge >>
    /\ UNCHANGED << evaluator_vars, side_vars >>

Next ==
    \/ Evaluate
    \/ Retrieve
    \/ PrepareQuestion
    \/ ScoreDocument
    \/ BuildQueryResult
    \/ BuildRun
    \/ EvaluateReturns
    \/ EvaluateRaises

Spec == InitRun /\ [][Next]_vars

\* ------------------------------------------------------------------------
\* RankySwanky.evaluate with two registered engines: the threads share the
\* cache table and the judge (main.py)
\* ------------------------------------------------------------------------

\* RankySwanky(retriever) followed by add_retriever("other", ...)
InitConcurrent ==
    /\ engines = << "default", "other" >>
    /\ queries = << >>
    /\ tasks = << >>
    /\ returned = << >>
    /\ outcome = NotCalled
    /\ judge = DeterministicJudge
    /\ table = DictOf({}, None)
    /\ evaluator = reset([ question |-> "" ])
    /\ persisted = TRUE
    /\ last = NoCall
    /\ setq = [ question |-> "", raised |-> FALSE, had_rubric |-> FALSE,
                had_met |-> FALSE, cached_before |-> None, generated |-> None ]
    /\ scored = NothingScored
    /\ SideIdle

NextConcurrent ==
    \/ Evaluate
    \/ Retrieve
    \/ LoadRubric
    \/ GenerateRubric
    \/ ScoreDocument
    \/ BuildQueryResult
    \/ BuildRun
    \/ EvaluateReturns
    \/ EvaluateRaises

SpecConcurrent == InitConcurrent /\ [][NextConcurrent]_vars

\* ------------------------------------------------------------------------
\* The rubric repository called directly
\* (adapters/persistence/repositories_sqllite.py)
\* ------------------------------------------------------------------------

\* no evaluator is called directly
EvaluatorIdle ==
    /\ evaluator = reset([ question |-> "" ])
    /\ persisted = TRUE
    /\ last = NoCall
    /\ setq = [ question |-> "", raised |-> FALSE, had_rubric |-> FALSE,
                had_met |-> FALSE, cached_before |-> None, generated |-> None ]
    /\ scored = NothingScored

\* no RankySwanky instance is at work
RunIdle ==
    /\ engines = << >>
    /\ queries = << >>
    /\ tasks = << >>
    /\ returned = << >>
    /\ outcome = NotCalled
    /\ judge = AnyJudge

\* perspective texts a caller can pass; the first is perspectives[0]
Perspectives == { DefaultPerspective, "perspective1" }

\* the lists of a rubric handed to save()
SavedRewrittenLists == { << "rw1" >>, << "rw1", "rw2", "rw3" >> }

SavedPropertyLists == { << PropA >>, << PropA, PropBC >> }

InitRepository ==
    /\ table = DictOf({}, None)
    /\ RepositoryIdle
    /\ QueryBuilderIdle
    /\ MetricsIdle
    /\ RunBuilderIdle
    /\ EvaluatorIdle
    /\ RunIdle
    /\ AsideIdle

\* repository.save(params)
Save ==
    \E question \in Questions, perspective \in Perspectives :
    \E rewritten_questions \in SavedRewrittenLists :
    \E properties \in SavedPropertyLists :
        LET params == CombinedOutput(question, perspective,
                                     rewritten_questions, properties)
            key == << question, perspective >>
        IN  /\ table' = repository_save(table, params)
            /\ puts' = [ k \in DOMAIN puts \cup { key } |->
                           IF k = key
                           THEN [ rewritten_questions |-> rewritten_questions,
                                  properties |-> properties ]
                           ELSE puts[k] ]
            /\ repo' = [ op |-> "save", question |-> question,
                         perspective |-> perspective,
                         rewritten_questions |-> rewritten_questions,
                         properties |-> properties, result |-> None ]
            /\ UNCHANGED << evaluator_vars, run_vars, query_builder_vars,
                            metrics_vars, run_builder_vars, aside_vars >>

\* repository.get_by_question_and_perspective(question, perspective)
GetByQuestionAndPerspective ==
    \E question \in Questions, perspective \in Perspectives :
        /\ repo' = [ op |-> "get", question |-> question,
                     perspective |-> perspective,
                     rewritten_questions |-> << >>, properties |-> << >>,
                     result |-> get_by_question_and_perspective(
                                    table, question, perspective) ]
        /\ UNCHANGED << table, puts, evaluator_vars, run_vars,
                        query_builder_vars, metrics_vars, run_builder_vars,
                        aside_vars >>

NextRepository == Save \/ GetByQuestionAndPerspective

SpecRepository == InitRepository /\ [][NextRepository]_vars

\* ------------------------------------------------------------------------
\* A QueryResultsBuilder called directly, its methods in any order
\* (builders/query_results_builder.py)
\* ------------------------------------------------------------------------

\* ranked result lists handed to set_ranked_search_results
\* the texts a retriever returned, best first
DocumentOrder == << "d2", "d1", "d3", "d4" >>

ResultLists ==
    { SubSeq(DocumentOrder, 1, n) :
        n \in { k \in 0..MaxResults : k <= Len(DocumentOrder) } }

\* embedding lists handed to set_embeddings: one vector per position
EmbeddingLists == { [ i \in 1..n |-> << i >> ] : n \in 0..MaxResults }

\* what the evaluator hands over for one document: its metrics, or None
MetricEntries ==
    { None,
      Some(RetrievedDocumentMetrics(FracZero, FracZero)),
      Some(RetrievedDocumentMetrics(FracOne, Frac(1, 2))) }

\* metric lists handed to set_metrics
MetricLists == ListsUpTo(MetricEntries, MaxResults)

InitQueryBuilder ==
    /\ QueryBuilderIdle
    /\ RepositoryIdle
    /\ MetricsIdle
    /\ RunBuilderIdle
    /\ table = DictOf({}, None)
    /\ EvaluatorIdle
    /\ RunIdle
    /\ AsideIdle

\* what a call on the builder leaves alone besides the builder
BuilderFrame ==
    UNCHANGED << table, evaluator_vars, run_vars, repository_vars,
                 metrics_vars, run_builder_vars, aside_vars >>

\* the record of a setter call
SetterCall(op, done, length) ==
    [ op |-> op, raised |-> done.raised, value |-> None, length |-> length,
      built_before |-> qrb_ghost.built ]

\* builder.reset()
BuilderReset ==
    /\ qrb' = query_results_builder_reset(qrb)
    /\ qrb_ghost' = FreshGhost
    /\ qrb_last' = [ NoBuilderCall EXCEPT !.op = "reset",
                                          !.built_before = qrb_ghost.built ]
    /\ BuilderFrame

\* builder.set_query(query)
SetQuery ==
    \E query \in Questions :
        LET done == set_query(qrb, query) IN
        /\ qrb' = done.self
        /\ qrb_last' = SetterCall("set_query", done, 0)
        /\ UNCHANGED qrb_ghost
        /\ BuilderFrame

\* builder.set_answer(answer)
SetAnswer ==
    LET done == set_answer(qrb, "answer") IN
    /\ qrb' = done.self
    /\ qrb_last' = SetterCall("set_answer", done, 0)
    /\ UNCHANGED qrb_ghost
    /\ BuilderFrame

\* builder.set_retrieval_time_ms(retrieval_time_ms)
SetRetrievalTimeMs ==
    \E retrieval_time_ms \in ElapsedTimes :
        LET done == set_retrieval_time_ms(qrb, retrieval_time_ms) IN
        /\ qrb' = done.self
        /\ qrb_last' = SetterCall("set_retrieval_time_ms", done, 0)
        /\ UNCHANGED qrb_ghost
        /\ BuilderFrame

\* the ghost after a call of the setter of one of the three lists
GhostAfter(name, done) ==
    IF done.raised THEN qrb_ghost
    ELSE [ qrb_ghost EXCEPT !.set = @ \cup { name } ]

\* builder.set_ranked_search_results(ranked_search_results)
SetRankedSearchResults ==
    \E ranked_search_results \in ResultLists :
        LET done == set_ranked_search_results(qrb, ranked_search_results) IN
        /\ qrb' = done.self
        /\ qrb_last' = SetterCall("set_ranked_search_results", done,
                                  Len(ranked_search_results))
        /\ qrb_ghost' = GhostAfter("ranked_search_results", done)
        /\ BuilderFrame

\* builder.set_embeddings(embeddings)
SetEmbeddings ==
    \E embeddings \in EmbeddingLists :
        LET done == set_embeddings(qrb, embeddings) IN
        /\ qrb' = done.self
        /\ qrb_last' = SetterCall("set_embeddings", done, Len(embeddings))
        /\ qrb_ghost' = GhostAfter("embeddings", done)
        /\ BuilderFrame

\* builder.set_metrics(metrics)
SetMetrics ==
    \E metrics \in MetricLists :
        LET done == set_metrics(qrb, metrics) IN
        /\ qrb' = done.self
        /\ qrb_last' = SetterCall("set_metrics", done, Len(metrics))
        /\ qrb_ghost' = GhostAfter("metrics", done)
        /\ BuilderFrame

\* builder.build()
Build ==
    LET built == query_results_builder_build(qrb) IN
    /\ qrb_last' = [ op |-> "build", raised |-> built.raised,
                     value |-> built.value, length |-> 0,
                     built_before |-> qrb_ghost.built ]
    /\ qrb_ghost' = [ qrb_ghost EXCEPT !.built = @ \/ ~built.raised ]
    /\ UNCHANGED qrb
    /\ BuilderFrame

NextQueryBuilder ==
    \/ BuilderReset
    \/ SetQuery
    \/ SetAnswer
    \/ SetRetrievalTimeMs
    \/ SetRankedSearchResults
    \/ SetEmbeddings
    \/ SetMetrics
    \/ Build

SpecQueryBuilder == InitQueryBuilder /\ [][NextQueryBuilder]_vars

\* ------------------------------------------------------------------------
\* The aggregate functions applied to a list of documents
\* (utils/aggregated_metrics.py)
\* ------------------------------------------------------------------------

\* relevance and novelty values in [0, 1]
RelevanceValues == { FracZero, Frac(1, 2), FracOne }

NoveltyValues == { FracZero, Frac(1, 3), FracOne }

\* the metrics of one document, or None when it was not scored
DocumentMetricEntries ==
    { None } \cup { Some(RetrievedDocumentMetrics(r, n)) :
                      r \in RelevanceValues, n \in NoveltyValues }

\* the documents of a QueryResults: the i-th has rank i, as build() sets it
DocumentLists ==
    { [ i \in DOMAIN entries |->
          RetrievedDocument(DocumentOrder[1], i, << >>, entries[i]) ] :
        entries \in ListsUpTo(DocumentMetricEntries, MaxRanked) }

\* [doc.retrieved_document_metrics for doc in documents]
MetricsOf(docs) ==
    [ i \in DOMAIN docs |-> Get(docs[i].retrieved_document_metrics) ]

\* the per-query metrics stored in a QueryResults, or None
StoredQueryMetrics ==
    { None } \cup
    { Some([ mean_relevance |-> FracZero, mean_novelty |-> FracZero,
             reciprocal_rank_of_first_relevant_document |-> r ]) :
        r \in { FracZero, Frac(1, 2), Frac(1, 3) } }

\* the documents of the QueryResults handed to the run-level aggregate
RunDocumentLists ==
    { docs \in DocumentLists :
        /\ Len(docs) <= 2
        /\ \A i \in DOMAIN docs :
             docs[i].retrieved_document_metrics \in
                 { None, Some(RetrievedDocumentMetrics(FracOne, Frac(1, 3))),
                   Some(RetrievedDocumentMetrics(Frac(1, 2), FracOne)) }
        /\ Len(docs) = 2 =>
             ~IsNone(docs[2].retrieved_document_metrics) }

\* QueryResults: query, retrieved_documents, query_metrics
QueryResultsValues ==
    { [ query |-> "q1", retrieved_documents |-> docs, query_metrics |-> m ] :
        docs \in RunDocumentLists, m \in StoredQueryMetrics }

QueryResultsLists == ListsUpTo(QueryResultsValues, MaxQueries)

\* one of the two inputs is drawn, the other is the empty list
InitMetrics ==
    /\ \/ doc_list \in DocumentLists /\ query_list = << >>
       \/ doc_list = << >> /\ query_list \in QueryResultsLists
    /\ computed = NotComputed
    /\ RepositoryIdle
    /\ QueryBuilderIdle
    /\ RunBuilderIdle
    /\ table = DictOf({}, None)
    /\ EvaluatorIdle
    /\ RunIdle
    /\ AsideIdle

MetricsFrame ==
    UNCHANGED << doc_list, query_list, table, evaluator_vars, run_vars,
                 repository_vars, query_builder_vars, run_builder_vars,
                 aside_vars >>

\* calculate_mean_relevance and calculate_mean_novelty of the documents'
\* metrics; a document without metrics raises AttributeError
CalculateMeans ==
    /\ computed' =
         IF \E i \in DOMAIN doc_list :
                IsNone(doc_list[i].retrieved_document_metrics)
         THEN [ NotComputed EXCEPT !.op = "means", !.raised = TRUE ]
         ELSE [ NotComputed EXCEPT
                  !.op = "means",
                  !.mean_relevance =
                      calculate_mean_relevance(MetricsOf(doc_list)),
                  !.mean_novelty =
                      calculate_mean_novelty(MetricsOf(doc_list)) ]
    /\ MetricsFrame

\* calculate_reciprocal_rank_of_first_relevant_document(documents)
CalculateReciprocalRank ==
    /\ computed' =
         [ NotComputed EXCEPT
             !.op = "reciprocal_rank",
             !.reciprocal_rank =
                 calculate_reciprocal_rank_of_first_relevant_document(doc_list) ]
    /\ MetricsFrame

\* calculate_per_query_retrieval_metrics(documents)
CalculatePerQuery ==
    /\ LET result == calculate_per_query_retrieval_metrics(doc_list) IN
       computed' = [ NotComputed EXCEPT !.op = "per_query",
                                        !.raised = IsNone(result),
                                        !.value = result ]
    /\ MetricsFrame

\* calculate_aggregated_retrieval_metrics(query_results)
CalculateAggregated ==
    /\ LET result == calculate_aggregated_retrieval_metrics(query_list) IN
       computed' = [ NotComputed EXCEPT !.op = "aggregated",
                                        !.raised = IsNone(result),
                                        !.value = result ]
    /\ MetricsFrame

NextMetrics ==
    \/ CalculateMeans
    \/ CalculateReciprocalRank
    \/ CalculatePerQuery
    \/ CalculateAggregated

SpecMetrics == InitMetrics /\ [][NextMetrics]_vars

\* ------------------------------------------------------------------------
\* SearchEvaluationRunBuilder called directly
\* (builders/search_evaluation_run_builder.py)
\* ------------------------------------------------------------------------

\* TestConfiguration objects a caller can hand to set_test_configuration
TestConfigurations ==
    { DefaultTestConfiguration,
      [ DefaultTestConfiguration EXCEPT !.distance_function = "euclidean" ] }

\* engine names a caller can hand to set_engine_name
EngineNames == { "default", "other" }

\* QueryResults objects a caller can hand to the builder
BuiltQueryResults ==
    { [ query |-> q,
        retrieved_documents |->
            << RetrievedDocument(DocumentOrder[1], 1, << >>, None) >>,
        retrieval_time_ms |-> 4,
        query_metrics |-> None ] : q \in Questions }

\* AggregatedRetrievalMetrics objects a caller can hand to the builder
AggregateValues ==
    { [ mean_relevance |-> r, mean_novelty |-> FracZero,
        mean_reciprocal_rank |-> FracZero ] : r \in { FracZero, FracOne } }

InitRunBuilder ==
    /\ RunBuilderIdle
    /\ RepositoryIdle
    /\ QueryBuilderIdle
    /\ MetricsIdle
    /\ table = DictOf({}, None)
    /\ EvaluatorIdle
    /\ RunIdle
    /\ AsideIdle

\* what a call on the run builder leaves alone besides the builder
RunBuilderFrame ==
    UNCHANGED << table, evaluator_vars, run_vars, repository_vars,
                 query_builder_vars, metrics_vars, aside_vars >>

\* a setter was called with a value
GivenTo(name, value) ==
    [ k \in DOMAIN srb_ghost \cup { name } |->
        IF k = name THEN value ELSE srb_ghost[k] ]

\* builder.reset()
RunBuilderReset ==
    /\ srb' = run_builder_reset(srb)
    /\ srb_ghost' = DictOf({}, None)
    /\ srb_last' = [ NoRunBuilderCall EXCEPT !.op = "reset" ]
    /\ RunBuilderFrame

\* builder.set_test_configuration(test_configuration)
SetTestConfiguration ==
    /\ \E test_configuration \in TestConfigurations :
        /\ srb' = set_test_configuration(srb, test_configuration)
        /\ srb_ghost' = GivenTo("test_configuration", test_configuration)
    /\ srb_last' = [ NoRunBuilderCall EXCEPT !.op = "set_test_configuration" ]
    /\ RunBuilderFrame

\* builder.add_query_result(query_result)
AddQueryResult ==
    /\ Len(srb.query_results) < MaxQueries
    /\ \E query_result \in BuiltQueryResults :
        /\ srb' = add_query_result(srb, query_result)
        /\ srb_ghost' = GivenTo("query_results", srb'.query_results)
    /\ srb_last' = [ NoRunBuilderCall EXCEPT !.op = "add_query_result" ]
    /\ RunBuilderFrame

\* builder.set_query_results(query_results)
SetQueryResults ==
    /\ \E query_results \in ListsUpTo(BuiltQueryResults, MaxQueries) :
        /\ srb' = set_query_results(srb, query_results)
        /\ srb_ghost' = GivenTo("query_results", query_results)
    /\ srb_last' = [ NoRunBuilderCall EXCEPT !.op = "set_query_results" ]
    /\ RunBuilderFrame

\* builder.set_retrieval_metrics(retrieval_metrics)
SetRetrievalMetrics ==
    /\ \E retrieval_metrics \in AggregateValues :
        /\ srb' = set_retrieval_metrics(srb, retrieval_metrics)
        /\ srb_ghost' = GivenTo("retrieval_metrics", retrieval_metrics)
    /\ srb_last' = [ NoRunBuilderCall EXCEPT !.op = "set_retrieval_metrics" ]
    /\ RunBuilderFrame

\* builder.set_engine_name(engine_name)
SetEngineName ==
    /\ \E engine_name \in EngineNames :
        /\ srb' = set_engine_name(srb, engine_name)
        /\ srb_ghost' = GivenTo("engine_name", engine_name)
    /\ srb_last' = [ NoRunBuilderCall EXCEPT !.op = "set_engine_name" ]
    /\ RunBuilderFrame

\* builder.build()
BuildSearchEvaluationRun ==
    /\ LET run == run_builder_build(srb) IN
       srb_last' = [ op |-> "build", raised |-> IsNone(run), value |-> run ]
    /\ UNCHANGED << srb, srb_ghost >>
    /\ RunBuilderFrame

NextRunBuilder ==
    \/ RunBuilderReset
    \/ SetTestConfiguration
    \/ AddQueryResult
    \/ SetQueryResults
    \/ SetRetrievalMetrics
    \/ SetEngineName
    \/ BuildSearchEvaluationRun

SpecRunBuilder == InitRunBuilder /\ [][NextRunBuilder]_vars






\* ------------------------------------------------------------------------
\* Two engine threads saving to the shared table
\* (adapters/persistence/pydantic_caching.py)
\* ------------------------------------------------------------------------

\* session.merge(model): the session looks the primary key up in the
\* table; without a row the copy of the model is a new object that the
\* flush will INSERT, with a row it is the loaded object that the flush
\* will UPDATE
session_merge(rows, model) ==
    [ instance |-> model, pending |-> model.id \notin DOMAIN rows ]

\* session.commit(): the flush writes the object; an INSERT of a primary
\* key that the table holds by now raises IntegrityError
session_commit(rows, session) ==
    IF session.pending /\ session.instance.id \in DOMAIN rows
    THEN [ table |-> rows, raised |-> TRUE ]
    ELSE [ table |-> [ k \in DOMAIN rows \cup { session.instance.id } |->
                         IF k = session.instance.id
                         THEN session.instance ELSE rows[k] ],
           raised |-> FALSE ]

\* the threads of asyncio.to_thread, one per engine
WriterNames == { "default", "other" }

\* a row that an earlier evaluate call left in the table
EarlierRow ==
    map_combined_output_to_gen_and_evaluate_params(
        CombinedOutput("q1", DefaultPerspective, << "rw1" >>, << PropA >>))

InitCachePuts ==
    /\ table \in { DictOf({}, None),
                   [ k \in { EarlierRow.id } |-> EarlierRow ] }
    /\ writers = [ e \in WriterNames |-> [ pc |-> "idle", session |-> None ] ]
    /\ RepositoryIdle
    /\ QueryBuilderIdle
    /\ MetricsIdle
    /\ RunBuilderIdle
    /\ GainIdle
    /\ ReasonerIdle
    /\ EvaluatorIdle
    /\ RunIdle

CachePutsFrame ==
    UNCHANGED << evaluator_vars, run_vars, repository_vars,
                 query_builder_vars, metrics_vars, run_builder_vars,
                 gain_vars, reasoner_vars >>

\* save_sqlmodels_to_db([persistence_obj]) up to session.merge(model)
PutMerge ==
    \E e \in DOMAIN writers :
    /\ writers[e].pc = "idle"
    /\ \E question \in Questions :
       \E rewritten_questions \in SavedRewrittenLists :
       \E properties \in SavedPropertyLists :
        LET model == map_combined_output_to_gen_and_evaluate_params(
                         CombinedOutput(question, DefaultPerspective,
                                        rewritten_questions, properties))
        IN  writers' = [ writers EXCEPT ![e] =
                [ pc |-> "merged",
                  session |-> Some(session_merge(table, model)) ] ]
    /\ UNCHANGED table
    /\ CachePutsFrame

\* save_sqlmodels_to_db: session.commit()
PutCommit ==
    \E e \in DOMAIN writers :
    /\ writers[e].pc = "merged"
    /\ LET done == session_commit(table, Get(writers[e].session))
       IN  /\ table' = done.table
           /\ writers' = [ writers EXCEPT ![e].pc =
                              IF done.raised THEN "failed" ELSE "saved" ]
    /\ CachePutsFrame

NextCachePuts == PutMerge \/ PutCommit

SpecCachePuts == InitCachePuts /\ [][NextCachePuts]_vars

\* ------------------------------------------------------------------------
\* The gain functions of retrieved_documents_for_query_builder.py
\* ------------------------------------------------------------------------

\* the longest list of relevance values handed to a gain function
MaxScores == 3

\* relevance values between 0 and 1
RelevancyValues == { Frac(0, 1), Frac(1, 3), Frac(1, 2), Frac(1, 1) }

RelevancyLists == ListsUpTo(RelevancyValues, MaxScores)

RECURSIVE Gcd(_, _)
Gcd(a, b) == IF b = 0 THEN a ELSE Gcd(b, a % b)

\* the same number in lowest terms
Reduced(x) ==
    IF x[1] = 0 THEN FracZero
    ELSE LET g == Gcd(x[1], x[2]) IN Frac(x[1] \div g, x[2] \div g)

\* x / y for y > 0
FracDiv(x, y) == Reduced(Frac(x[1] * y[2], x[2] * y[1]))

\* relevancy / (i + 1) for the first n entries, summed
RECURSIVE discounted_sum(_, _)
discounted_sum(scores, n) ==
    IF n = 0 THEN FracZero
    ELSE Reduced(FracAdd(discounted_sum(scores, n - 1),
                         Frac(scores[n][1], scores[n][2] * n)))

\* sum(relevancy / (i + 1) for i, relevancy in enumerate(relevancy_scores))
calculate_discounted_cumulative_gain(scores) ==
    discounted_sum(scores, Len(scores))

\* the place of x in a list that is in descending order
RECURSIVE insert_descending(_, _)
insert_descending(x, s) ==
    IF s = << >> THEN << x >>
    ELSE IF FracLe(Head(s), x) THEN << x >> \o s
    ELSE << Head(s) >> \o insert_descending(x, Tail(s))

\* sorted(relevancy_scores, reverse=True)
RECURSIVE sorted_reverse(_)
sorted_reverse(scores) ==
    IF scores = << >> THEN << >>
    ELSE insert_descending(Head(scores), sorted_reverse(Tail(scores)))

\* sorted(relevancy_scores)
sorted_ascending(scores) ==
    LET s == sorted_reverse(scores)
    IN  [ i \in DOMAIN s |-> s[Len(s) + 1 - i] ]

\* the normalized gain with the ideal ordering taken in ascending order
calculate_normalized_discounted_cumulative_gain_sorted_ascending(scores) ==
    LET dcg == calculate_discounted_cumulative_gain(scores)
        ideal_dcg == calculate_discounted_cumulative_gain(sorted_ascending(scores))
    IN  IF ideal_dcg[1] > 0 THEN FracDiv(dcg, ideal_dcg) ELSE FracZero

\* dcg / ideal_dcg if ideal_dcg > 0 else 0.0
calculate_normalized_discounted_cumulative_gain(scores) ==
    LET dcg == calculate_discounted_cumulative_gain(scores)
        ideal_dcg == calculate_discounted_cumulative_gain(sorted_reverse(scores))
    IN  IF ideal_dcg[1] > 0 THEN FracDiv(dcg, ideal_dcg) ELSE FracZero

InitGain ==
    /\ relevancy_scores \in RelevancyLists
    /\ gain = NoGain
    /\ table = DictOf({}, None)
    /\ CachePutsIdle
    /\ ReasonerIdle
    /\ RepositoryIdle
    /\ QueryBuilderIdle
    /\ MetricsIdle
    /\ RunBuilderIdle
    /\ EvaluatorIdle
    /\ RunIdle

GainFrame ==
    UNCHANGED << relevancy_scores, table, evaluator_vars, run_vars,
                 repository_vars, query_builder_vars, metrics_vars,
                 run_builder_vars, cache_put_vars, reasoner_vars >>

CalculateDiscountedCumulativeGain ==
    /\ gain' = [ op |-> "dcg",
                 value |-> calculate_discounted_cumulative_gain(relevancy_scores) ]
    /\ GainFrame

CalculateNormalizedDiscountedCumulativeGain ==
    /\ gain' = [ op |-> "ndcg",
                 value |-> calculate_normalized_discounted_cumulative_gain(
                               relevancy_scores) ]
    /\ GainFrame

NextGain ==
    \/ CalculateDiscountedCumulativeGain
    \/ CalculateNormalizedDiscountedCumulativeGain

SpecGain == InitGain /\ [][NextGain]_vars

\* ------------------------------------------------------------------------
\* TransitiveReasoner (experimentation/transitive_reasoning.py)
\* ------------------------------------------------------------------------

\* the most direct relations the reasoner is given
MaxRelations == 3

\* the names that are related
Names == { "A", "B", "C" }

\* add_relation: self.relations[a] is created when missing, then b is added
add_relation(rel, a, b) ==
    [ k \in DOMAIN rel \cup { a } |->
        IF k = a
        THEN (IF a \in DOMAIN rel THEN rel[a] ELSE {}) \cup { b }
        ELSE rel[k] ]

\* one pass of the loop of compute_transitive_closure over all keys
closure_pass(closure) ==
    [ a \in DOMAIN closure |->
        closure[a] \cup UNION { DictGet(closure, b, {}) : b \in closure[a] } ]

\* compute_transitive_closure: passes until nothing changes
RECURSIVE closure_from(_)
closure_from(closure) ==
    IF closure_pass(closure) = closure THEN closure
    ELSE closure_from(closure_pass(closure))

compute_transitive_closure(rel) == closure_from(rel)

\* the pairs (a, b) with b in the set of a
pairs_of(rel) == UNION { { << a, b >> : b \in rel[a] } : a \in DOMAIN rel }

\* all_relations: the direct relations (the list's order is the iteration
\* order of the dict and of its sets; its elements are these)
all_relations(rel) == pairs_of(rel)

\* sum(len(v) for v in closure.values())
count_of(closure) == Cardinality(pairs_of(closure))

\* calculate_information_gain: the relations it leaves and the value
calculate_information_gain(rel, a, b) ==
    LET original_count == count_of(compute_transitive_closure(rel))
        added == add_relation(rel, a, b)
        new_count == count_of(compute_transitive_closure(added))
    IN  [ relations |-> [ added EXCEPT ![a] = @ \ { b } ],
          value |-> new_count - original_count ]

InitReasoner ==
    /\ ReasonerIdle
    /\ table = DictOf({}, None)
    /\ CachePutsIdle
    /\ GainIdle
    /\ RepositoryIdle
    /\ QueryBuilderIdle
    /\ MetricsIdle
    /\ RunBuilderIdle
    /\ EvaluatorIdle
    /\ RunIdle

ReasonerFrame ==
    UNCHANGED << table, evaluator_vars, run_vars, repository_vars,
                 query_builder_vars, metrics_vars, run_builder_vars,
                 cache_put_vars, gain_vars >>

\* reasoner.add_relation(a, b)
AddRelation ==
    \E a \in Names, b \in Names :
    /\ Cardinality(all_relations(add_relation(relations, a, b))) <= MaxRelations
    /\ relations' = add_relation(relations, a, b)
    /\ reasoned' = [ op |-> "add_relation", a |-> a, b |-> b,
                     before |-> all_relations(relations), value |-> 0 ]
    /\ ReasonerFrame

\* reasoner.calculate_information_gain(a, b)
CalculateInformationGain ==
    \E a \in Names, b \in Names :
        LET done == calculate_information_gain(relations, a, b)
        IN  /\ relations' = done.relations
            /\ reasoned' = [ op |-> "calculate_information_gain",
                             a |-> a, b |-> b,
                             before |-> all_relations(relations),
                             value |-> done.value ]
            /\ ReasonerFrame

NextReasoner == AddRelation \/ CalculateInformationGain

SpecReasoner == InitReasoner /\ [][NextReasoner]_vars

\* ------------------------------------------------------------------------
\* Properties of RelevanceEvaluator
\* ------------------------------------------------------------------------

RubricLoaded == ~IsNone(evaluator.validation_criteria)

LoadedProperties == Get(evaluator.validation_criteria).properties

\* the last call was a score that returned metrics
ReturnedMetrics == last.op = "score" /\ ~IsNone(last.result)

\* positions of the loaded property list the last scored document satisfies
LastSatisfied == satisfied_positions(LoadedProperties, last.evaluation)

\* C2: every score that returns metrics returns novelty = (properties the
\* document satisfies that no document scored earlier since the last
\* set_question satisfied) / (properties the document satisfies), and 0
\* when the document satisfies no property.
C2_NoveltyIsNewOverSatisfied ==
    ReturnedMetrics =>
        FracEq(Get(last.result).novelty,
               IF LastSatisfied = {} THEN FracZero
               ELSE Frac(Cardinality(LastSatisfied \ scored.before),
                         Cardinality(LastSatisfied)))

\* C3: every score against a non-empty property list returns relevance =
\* (rubric properties the document satisfies) / (length of the property
\* list).
C3_RelevanceIsSatisfiedOverTotal ==
    ReturnedMetrics =>
        FracEq(Get(last.result).relevance,
               Frac(Cardinality(LastSatisfied), Len(LoadedProperties)))

\* the sanitized names of the loaded properties are pairwise distinct
NamesDistinct ==
    Cardinality(sanitized_properties(LoadedProperties)) = Len(LoadedProperties)

\* C2 and C3 restricted to rubrics without sanitization collisions
NoveltyAndRelevanceWhenNamesDistinct ==
    (ReturnedMetrics /\ NamesDistinct) =>
        /\ FracEq(Get(last.result).relevance,
                  Frac(Cardinality(LastSatisfied), Len(LoadedProperties)))
        /\ FracEq(Get(last.result).novelty,
                  IF LastSatisfied = {} THEN FracZero
                  ELSE Frac(Cardinality(LastSatisfied \ scored.before),
                            Cardinality(LastSatisfied)))

\* C4: right after a successful set_question every rubric property is
\* recorded as unsatisfied and nothing is recorded as satisfied, whatever
\* the history held before; the first document scored then gets novelty 1
\* if it satisfies a property and 0 otherwise.
C4_SetQuestionResetsHistory ==
    /\ (last.op = "set_question" /\ ~last.raised) =>
          /\ RubricLoaded
          /\ \A p \in Range(LoadedProperties) :
                /\ p \in DOMAIN evaluator.validation_criterias_met_history
                /\ ~evaluator.validation_criterias_met_history[p]
          /\ \A k \in DOMAIN evaluator.validation_criterias_met_history :
                ~evaluator.validation_criterias_met_history[k]
    /\ (ReturnedMetrics /\ scored.count = 1) =>
          FracEq(Get(last.result).novelty,
                 IF LastSatisfied /= {} THEN FracOne ELSE FracZero)

\* C4 witness: the evaluator had marked a property satisfied for the old
\* query, the new rubric was loaded, and its first document, which
\* satisfies a property, got novelty 1
C4_Witness ==
    /\ setq.had_met /\ ~setq.raised
    /\ ReturnedMetrics /\ scored.count = 1
    /\ LastSatisfied /= {}
    /\ FracEq(Get(last.result).novelty, FracOne)

\* C5: every metrics value score returns has relevance and novelty in [0,1].
C5_MetricsInUnitInterval ==
    ReturnedMetrics =>
        /\ Get(last.result).relevance[2] > 0
        /\ Get(last.result).novelty[2] > 0
        /\ FracLe(FracZero, Get(last.result).relevance)
        /\ FracLe(Get(last.result).relevance, FracOne)
        /\ FracLe(FracZero, Get(last.result).novelty)
        /\ FracLe(Get(last.result).novelty, FracOne)

\* C5 witness: a second document with relevance 1 and a novelty strictly
\* between 0 and 1
C5_Witness ==
    /\ ReturnedMetrics /\ scored.count = 2
    /\ FracEq(Get(last.result).relevance, FracOne)
    /\ ~FracLe(Get(last.result).novelty, FracZero)
    /\ ~FracLe(FracOne, Get(last.result).novelty)

\* C6: a score while no rubric is loaded returns None, raises nothing,
\* calls no judge and leaves the evaluator (rubric and novelty history) as
\* it was.
C6_ScoreWithoutRubricReturnsNone ==
    [][ (~RubricLoaded /\ last'.op = "score") =>
          /\ IsNone(last'.result)
          /\ ~last'.raised
          /\ last'.calls = << >>
          /\ evaluator' = evaluator ]_vars

\* C6 witness: a score after a successful set_question and a reset
C6_Witness ==
    /\ last.op = "score" /\ ~RubricLoaded
    /\ setq.question /= "" /\ ~setq.raised
    /\ IsNone(last.result) /\ ~last.raised

\* C7: with a loaded rubric whose property list is empty, score returns
\* None (unavailable) instead of raising, also when the judge answers.
C7_EmptyRubricScoresUnavailable ==
    (last.op = "score" /\ RubricLoaded /\ LoadedProperties = << >>
       /\ last.error /= "JudgeError") =>
        /\ ~last.raised
        /\ IsNone(last.result)


\* the rubric the judge generated in the most recent set_question call
GeneratedRubric ==
    CombinedOutput(setq.question, DefaultPerspective,
                   Get(setq.generated).rewritten_questions,
                   Get(setq.generated).properties)

\* C8: once a set_question call has failed, the evaluator holds no rubric
\* and no history of the query before it: a rubric it holds was generated
\* by the failed call itself, the history is empty until a document is
\* scored, and metrics are computed against that rubric only.
C8_FailedSetQuestionDropsOldRubric ==
    setq.raised =>
        /\ RubricLoaded =>
              /\ ~IsNone(setq.generated)
              /\ evaluator.validation_criteria = Some(GeneratedRubric)
        /\ scored.count = 0 =>
              DOMAIN evaluator.validation_criterias_met_history = {}
        /\ ReturnedMetrics =>
              /\ ~IsNone(setq.generated)
              /\ DOMAIN last.evaluation =
                    sanitized_properties(Get(setq.generated).properties)

\* C8 witness: set_question failed on an evaluator that held a rubric, and
\* the score after it returned None
C8_Witness ==
    /\ setq.raised /\ setq.had_rubric /\ setq.had_met
    /\ last.op = "score" /\ IsNone(last.result) /\ ~last.raised

\* C9: after a set_question call that failed, at whatever step, no rubric
\* is loaded and a score returns None.
C9_FailedSetQuestionLeavesNothing ==
    setq.raised =>
        /\ ~RubricLoaded
        /\ last.op = "score" => IsNone(last.result)

\* the cached row for a question under the default perspective
CachedRow(rows, question) == row_for(rows, question, DefaultPerspective)

\* C10, calls: with persistence, a set_question that finds a row for its
\* (question, perspective) calls no judge and loads the row's rewritten
\* questions and properties; one that finds none asks the judge for both
\* lists, and when it returns the row holding them is in the table.
C10_HitOrGenerateAndStore ==
    (persisted /\ last.op = "set_question") =>
        IF ~IsNone(setq.cached_before)
        THEN /\ last.calls = << "load" >>
             /\ IsNone(setq.generated)
             /\ ~last.raised =>
                  /\ RubricLoaded
                  /\ Get(evaluator.validation_criteria).rewritten_questions
                        = Get(setq.cached_before).rewritten_questions
                  /\ LoadedProperties = Get(setq.cached_before).properties
        ELSE ~last.raised =>
                  /\ last.calls = << "load", "rewrite", "properties", "save" >>
                  /\ ~IsNone(setq.generated)
                  /\ evaluator.validation_criteria = Some(GeneratedRubric)
                  /\ ~IsNone(CachedRow(table, setq.question))
                  /\ Get(CachedRow(table, setq.question)).rewritten_questions
                        = Get(setq.generated).rewritten_questions
                  /\ Get(CachedRow(table, setq.question)).properties
                        = Get(setq.generated).properties

\* C10, later calls: a row once in the table stays, so a later
\* set_question for its question finds it
C10_RowsStay ==
    \A q \in Questions :
        ~IsNone(CachedRow(table, q)) => CachedRow(table', q) = CachedRow(table, q)

\* C10: with caching, set_question calls the judge only on a cache miss; a
\* hit loads the cached lists; after a miss the row is stored before the
\* call returns, and a later set_question for the same question is a hit.
C10_JudgeOnlyOnCacheMiss ==
    /\ []C10_HitOrGenerateAndStore
    /\ [][C10_RowsStay]_vars

\* C10 witness: a set_question answered from the cache, with a non-empty
\* property list, by an evaluator that held another question's rubric
C10_Witness ==
    /\ persisted /\ last.op = "set_question" /\ ~last.raised
    /\ ~IsNone(setq.cached_before)
    /\ last.calls = << "load" >>
    /\ setq.had_rubric
    /\ RubricLoaded /\ LoadedProperties /= << >>
    /\ \E q \in Questions \ { setq.question } : ~IsNone(CachedRow(table, q))

\* ------------------------------------------------------------------------
\* Properties of RankySwanky.evaluate
\* ------------------------------------------------------------------------

\* the document texts of a per-query result, in list order
DocumentContents(query_result) ==
    [ j \in DOMAIN query_result.retrieved_documents |->
        query_result.retrieved_documents[j].document_content ]

\* C1: with one registered retriever, the collection evaluate(queries)
\* returns holds exactly one run; the run has one per-query result per
\* input query, in input order, and each carries the query text and exactly
\* the documents the retriever returned for that query, in the returned
\* order (ranks 1, 2, ...).
C1_OneRunInQueryAndDocumentOrder ==
    (outcome.status = "returned" /\ Len(engines) = 1) =>
        /\ Len(outcome.runs) = 1
        /\ Len(outcome.runs[1].per_query_results) = Len(queries)
        /\ \A i \in DOMAIN queries :
            LET query_result == outcome.runs[1].per_query_results[i] IN
            /\ query_result.query = queries[i]
            /\ DocumentContents(query_result) = returned[engines[1]][i]
            /\ \A j \in DOMAIN query_result.retrieved_documents :
                   query_result.retrieved_documents[j].rank = j

\* evaluate returned for two different queries whose retriever results
\* differ in length and are not in alphabetical order
C1_Witness ==
    /\ outcome.status = "returned"
    /\ Len(engines) = 1
    /\ queries = << "q2", "q1" >>
    /\ returned[engines[1]] = << << "d2", "d1" >>, << "d1" >> >>

\* ------------------------------------------------------------------------
\* Properties of the rubric repository
\* ------------------------------------------------------------------------

\* the lists of a rubric that get() returned
ListsOf(rubric) ==
    [ rewritten_questions |-> rubric.rewritten_questions,
      properties |-> rubric.properties ]

\* C11: the cache is keyed by the (question, perspective) pair: get(q, p)
\* after a put for (q, p) returns the rewritten questions and properties
\* last put for that pair, and get(q, p') returns none when nothing was
\* ever put for (q, p').
C11_GetReturnsWhatWasPutForThePair ==
    repo.op = "get" =>
        LET key == << repo.question, repo.perspective >> IN
        IF key \in DOMAIN puts
        THEN /\ ~IsNone(repo.result)
             /\ ListsOf(Get(repo.result)) = puts[key]
        ELSE IsNone(repo.result)

\* the rows of the table that belong to a (question, perspective) pair
RowsOf(rows, question, perspective) ==
    { k \in DOMAIN rows :
        /\ rows[k].query_id = sha256(question)
        /\ rows[k].perspective_id = sha256(perspective) }

\* after a put there is exactly one record for its pair and get returns
\* the content just put
C12_SecondContentIsRetrievable ==
    repo.op = "save" =>
        /\ Cardinality(RowsOf(table, repo.question, repo.perspective)) = 1
        /\ LET got == get_by_question_and_perspective(
                          table, repo.question, repo.perspective)
           IN  /\ ~IsNone(got)
               /\ Get(got).rewritten_questions = repo.rewritten_questions
               /\ Get(got).properties = repo.properties

\* putting the rubric a pair already holds leaves the cache as it was
C12_SamePutChangesNothing ==
    LET key == << repo'.question, repo'.perspective >> IN
    ( /\ repo'.op = "save"
      /\ key \in DOMAIN puts
      /\ puts[key] = [ rewritten_questions |-> repo'.rewritten_questions,
                       properties |-> repo'.properties ] )
    => table' = table

\* C12: put is an idempotent upsert: a second put for the same (question,
\* perspective) with other content does not fail, leaves exactly one record
\* for the key and get returns the second content; putting the same rubric
\* twice leaves the cache exactly as after one put.
C12_PutIsIdempotentUpsert ==
    []C12_SecondContentIsRetrievable /\ [][C12_SamePutChangesNothing]_vars

\* what of C12 the table itself keeps: one record per pair, holding the
\* content last put for the pair, and nothing else
UpsertKeepsOneRowPerPair ==
    /\ \A key \in DOMAIN puts :
        /\ Cardinality(RowsOf(table, key[1], key[2])) = 1
        /\ \A k \in RowsOf(table, key[1], key[2]) :
             /\ table[k].rewritten_questions = puts[key].rewritten_questions
             /\ table[k].properties = puts[key].properties
    /\ Cardinality(DOMAIN table) = Cardinality(DOMAIN puts)

\* ------------------------------------------------------------------------
\* Properties of QueryResultsBuilder
\* ------------------------------------------------------------------------

\* the stored length of one of the three parallel lists
StoredLength(name) ==
    IF name = "ranked_search_results" THEN Len(qrb.ranked_search_results)
    ELSE IF name = "embeddings"
    THEN (IF IsNone(qrb.embeddings) THEN 0 ELSE Len(Get(qrb.embeddings)))
    ELSE (IF IsNone(qrb.metrics) THEN 0 ELSE Len(Get(qrb.metrics)))

ListSetters ==
    { "set_ranked_search_results", "set_embeddings", "set_metrics" }

\* the list a setter stores
ListSetBy(op) ==
    IF op = "set_ranked_search_results" THEN "ranked_search_results"
    ELSE IF op = "set_embeddings" THEN "embeddings"
    ELSE "metrics"

\* the lists set since reset() all have one length
C13_SetListsHaveOneLength ==
    \A a \in qrb_ghost.set : \A b \in qrb_ghost.set :
        StoredLength(a) = StoredLength(b)

\* a setter handed a list whose length differs from that of another list
\* already set fails in that call and leaves the builder as it was
C13_MismatchFailsAtOnce ==
    ( /\ qrb_last'.op \in ListSetters
      /\ \E a \in qrb_ghost.set \ { ListSetBy(qrb_last'.op) } :
             StoredLength(a) /= qrb_last'.length )
    => (qrb_last'.raised /\ qrb' = qrb)

\* C13: after any sequence of setter calls, in any order, the ranked
\* results, embeddings and metrics lists that have been set all have the
\* same length: a setter given a list whose length differs from an
\* already set list fails immediately and leaves the stored lists unchanged.
C13_SettersKeepListsParallel ==
    []C13_SetListsHaveOneLength /\ [][C13_MismatchFailsAtOnce]_vars

\* what the setters do keep: the non-empty lists have one length
NonEmptyListsHaveOneLength ==
    \A a \in qrb_ghost.set : \A b \in qrb_ghost.set :
        (StoredLength(a) > 0 /\ StoredLength(b) > 0)
            => StoredLength(a) = StoredLength(b)

\* a build() call has just returned or raised
BuildCalled == qrb_last.op = "build"

BuildSucceeded == BuildCalled /\ ~qrb_last.raised

\* a supplied metrics list with an entry that is None
MetricMissing ==
    /\ Truthy(qrb.metrics)
    /\ \E i \in DOMAIN Get(qrb.metrics) : IsNone(Get(qrb.metrics)[i])

\* C14 as stated: build() fails with a validation error, returning no
\* QueryResults, whenever the query is unset and whenever the ranked result
\* list is empty; in every other state it succeeds.
C14_BuildFailsOnlyWithoutQueryOrResults ==
    BuildCalled =>
        /\ qrb_last.raised <=>
              (IsNone(qrb.query) \/ qrb.ranked_search_results = << >>)
        /\ qrb_last.raised <=> IsNone(qrb_last.value)

\* C14, amended: build() fails with a validation error, returning no
\* QueryResults, whenever the query is unset, whenever the ranked result
\* list is empty, and whenever a non-empty metrics list was supplied that
\* holds an absent entry; in every other state it succeeds.
C14_BuildFailsWithoutQueryResultsOrSomeMetric ==
    BuildCalled =>
        /\ qrb_last.raised <=>
              \/ IsNone(qrb.query)
              \/ qrb.ranked_search_results = << >>
              \/ MetricMissing
        /\ qrb_last.raised <=> IsNone(qrb_last.value)

\* build() raised with the query set and results present
C14_Witness ==
    /\ BuildCalled
    /\ qrb_last.raised
    /\ ~IsNone(qrb.query)
    /\ qrb.ranked_search_results /= << >>

\* C15: in every QueryResults that build() produces, the i-th document has
\* rank i and the content of the i-th input result string, whatever the
\* documents' relevance and novelty values are.
C15_RanksFollowInputOrder ==
    BuildSucceeded =>
        LET documents == Get(qrb_last.value).retrieved_documents IN
        /\ Len(documents) = Len(qrb.ranked_search_results)
        /\ \A i \in DOMAIN documents :
            /\ documents[i].rank = i
            /\ documents[i].document_content = qrb.ranked_search_results[i]

\* build() succeeded for two documents of which the second has the higher
\* relevance
C15_Witness ==
    /\ BuildSucceeded
    /\ Len(Get(qrb_last.value).retrieved_documents) = 2
    /\ Truthy(qrb.metrics)
    /\ Get(Get(qrb.metrics)[1]).relevance = FracZero
    /\ Get(Get(qrb.metrics)[2]).relevance = FracOne

\* per-document metrics were handed to set_metrics since reset()
MetricsSupplied == "metrics" \in qrb_ghost.set /\ Get(qrb.metrics) /= << >>

\* C16: build() attaches per-query metrics to the QueryResults if and only
\* if per-document metrics were supplied through set_metrics; when none
\* were supplied the per-query metrics and every document's metrics are
\* absent.
C16_QueryMetricsIffMetricsSupplied ==
    BuildSucceeded =>
        LET query_results == Get(qrb_last.value)
            documents == query_results.retrieved_documents
        IN  /\ ~IsNone(query_results.query_metrics) <=> MetricsSupplied
            /\ MetricsSupplied =>
                 \A i \in DOMAIN documents :
                     documents[i].retrieved_document_metrics = Get(qrb.metrics)[i]
            /\ ~MetricsSupplied =>
                 \A i \in DOMAIN documents :
                     IsNone(documents[i].retrieved_document_metrics)

\* build() succeeded with per-document metrics supplied
C16_Witness ==
    /\ BuildSucceeded
    /\ MetricsSupplied
    /\ ~IsNone(Get(qrb_last.value).query_metrics)

\* C17: a QueryResults is built exactly once per builder configuration:
\* after a successful build() the builder forbids a further build, also
\* after more setter calls, until reset() has been called.
C17_NoSecondBuildWithoutReset ==
    (BuildCalled /\ qrb_last.built_before) => qrb_last.raised

\* ------------------------------------------------------------------------
\* Properties of the aggregate functions
\* ------------------------------------------------------------------------

\* the product of the denominators of a list of fractions
RECURSIVE Denominators(_)
Denominators(values) ==
    IF values = << >> THEN 1 ELSE Head(values)[2] * Denominators(Tail(values))

\* the sum of the fractions, in units of 1/d
RECURSIVE ScaledTotal(_, _)
ScaledTotal(values, d) ==
    IF values = << >> THEN 0
    ELSE Head(values)[1] * (d \div Head(values)[2])
         + ScaledTotal(Tail(values), d)

\* m is the arithmetic mean of a non-empty list of fractions
IsArithmeticMean(m, values) ==
    LET d == Denominators(values)
    IN  m[1] * d * Len(values) = ScaledTotal(values, d) * m[2]

InUnitInterval(x) == FracLe(FracZero, x) /\ FracLe(x, FracOne)

MeansComputed == computed.op = "means" /\ ~computed.raised

\* C18: for every list of document metrics with relevance and novelty in
\* [0,1], mean relevance and mean novelty are the arithmetic means of those
\* values, lie in [0,1], and are 0 for the empty list.
C18_MeansAreArithmeticMeansInUnitInterval ==
    MeansComputed =>
        LET relevances == [ i \in DOMAIN doc_list |->
                Get(doc_list[i].retrieved_document_metrics).relevance ]
            novelties == [ i \in DOMAIN doc_list |->
                Get(doc_list[i].retrieved_document_metrics).novelty ]
        IN  /\ InUnitInterval(computed.mean_relevance)
            /\ InUnitInterval(computed.mean_novelty)
            /\ doc_list = << >> =>
                 /\ FracEq(computed.mean_relevance, FracZero)
                 /\ FracEq(computed.mean_novelty, FracZero)
            /\ doc_list /= << >> =>
                 /\ IsArithmeticMean(computed.mean_relevance, relevances)
                 /\ IsArithmeticMean(computed.mean_novelty, novelties)

\* the means of three documents were computed, neither 0 nor 1, and the
\* two differ
C18_Witness ==
    /\ MeansComputed
    /\ Len(doc_list) = 3
    /\ ~FracEq(computed.mean_relevance, computed.mean_novelty)
    /\ ~FracLe(computed.mean_relevance, FracZero)
    /\ ~FracLe(FracOne, computed.mean_relevance)
    /\ ~FracLe(computed.mean_novelty, FracZero)
    /\ ~FracLe(FracOne, computed.mean_novelty)

\* positions of the relevant documents of the list
RelevantPositions(docs) ==
    { i \in DOMAIN docs :
        /\ ~IsNone(docs[i].retrieved_document_metrics)
        /\ Get(docs[i].retrieved_document_metrics).relevance[1] * 2
               > Get(docs[i].retrieved_document_metrics).relevance[2] }

FirstRelevant(docs) ==
    CHOOSE i \in RelevantPositions(docs) :
        \A j \in RelevantPositions(docs) : i <= j

ReciprocalRankComputed == computed.op = "reciprocal_rank"

\* C19: the reciprocal rank of the first relevant document equals 1/rank,
\* rank being the 1-based rank of the first document in rank order that is
\* relevant (1 when the top-ranked document is relevant).
C19_ReciprocalRankIsOneOverRank ==
    (ReciprocalRankComputed /\ RelevantPositions(doc_list) /= {}) =>
        FracEq(computed.reciprocal_rank,
               Frac(1, doc_list[FirstRelevant(doc_list)].rank))

\* C20: the reciprocal rank of the first relevant document is 0 when no
\* document of the list is relevant and strictly positive otherwise, and it
\* is the value of the list cut after its first relevant document: what
\* follows that document does not change it.
C20_ReciprocalRankIgnoresWhatFollows ==
    ReciprocalRankComputed =>
        IF RelevantPositions(doc_list) = {}
        THEN FracEq(computed.reciprocal_rank, FracZero)
        ELSE /\ ~FracLe(computed.reciprocal_rank, FracZero)
             /\ FracEq(computed.reciprocal_rank,
                    calculate_reciprocal_rank_of_first_relevant_document(
                        SubSeq(doc_list, 1, FirstRelevant(doc_list))))

\* the reciprocal rank was computed for a list whose first relevant
\* document is the second and is followed by another relevant one
C20_Witness ==
    /\ ReciprocalRankComputed
    /\ Len(doc_list) = 3
    /\ RelevantPositions(doc_list) = { 2, 3 }

\* the list with the metrics of every document of relevance exactly 1/2
\* replaced by metrics of relevance 0
WithoutHalfSatisfied(docs) ==
    [ i \in DOMAIN docs |->
        IF /\ ~IsNone(docs[i].retrieved_document_metrics)
           /\ Get(docs[i].retrieved_document_metrics).relevance[1] * 2
                  = Get(docs[i].retrieved_document_metrics).relevance[2]
        THEN [ docs[i] EXCEPT !.retrieved_document_metrics =
                 Some(RetrievedDocumentMetrics(FracZero,
                        Get(docs[i].retrieved_document_metrics).novelty)) ]
        ELSE docs[i] ]

\* C21: a document is relevant if and only if its relevance is strictly
\* greater than 0.5: a document of relevance exactly 0.5 is not relevant and
\* does not count as the first relevant document.
C21_RelevantIffAboveHalf ==
    ReciprocalRankComputed =>
        /\ \A i \in DOMAIN doc_list :
             ~IsNone(doc_list[i].retrieved_document_metrics) =>
                 (is_relevant(Get(doc_list[i].retrieved_document_metrics))
                    <=> i \in RelevantPositions(doc_list))
        /\ FracEq(computed.reciprocal_rank,
                  calculate_reciprocal_rank_of_first_relevant_document(
                      WithoutHalfSatisfied(doc_list)))
        /\ RelevantPositions(doc_list) = {} =>
               FracEq(computed.reciprocal_rank, FracZero)

\* the reciprocal rank was computed for a list whose first document has
\* relevance exactly 1/2 and whose second document is relevant
C21_Witness ==
    /\ ReciprocalRankComputed
    /\ Len(doc_list) >= 2
    /\ ~IsNone(doc_list[1].retrieved_document_metrics)
    /\ FracEq(Get(doc_list[1].retrieved_document_metrics).relevance,
              Frac(1, 2))
    /\ 2 \in RelevantPositions(doc_list)
    /\ ~FracLe(computed.reciprocal_rank, FracZero)

PerQueryComputed == computed.op = "per_query"

UnscoredPositions(docs) ==
    { i \in DOMAIN docs : IsNone(docs[i].retrieved_document_metrics) }

\* C22: the per-query aggregate fails, producing no metrics, whenever at
\* least one document of the list has no metrics attached; it never skips
\* such a document and averages the rest.
C22_PerQueryFailsOnUnscoredDocument ==
    PerQueryComputed =>
        /\ UnscoredPositions(doc_list) /= {} =>
             /\ computed.raised
             /\ IsNone(computed.value)
        /\ UnscoredPositions(doc_list) = {} =>
             /\ ~computed.raised
             /\ ~IsNone(computed.value)
             /\ doc_list /= << >> =>
                  IsArithmeticMean(Get(computed.value).mean_relevance,
                      [ i \in DOMAIN doc_list |->
                          Get(doc_list[i].retrieved_document_metrics)
                              .relevance ])

\* the per-query aggregate was applied to three documents of which exactly
\* one, not the first, has no metrics
C22_Witness ==
    /\ PerQueryComputed
    /\ Len(doc_list) = 3
    /\ UnscoredPositions(doc_list) = { 2 }
    /\ computed.raised

\* fractions of several lists taken together
RECURSIVE DenominatorsOfLists(_)
DenominatorsOfLists(lists) ==
    IF lists = << >> THEN 1
    ELSE Denominators(Head(lists)) * DenominatorsOfLists(Tail(lists))

RECURSIVE ScaledTotalOfLists(_, _)
ScaledTotalOfLists(lists, d) ==
    IF lists = << >> THEN 0
    ELSE ScaledTotal(Head(lists), d) + ScaledTotalOfLists(Tail(lists), d)

RECURSIVE CountOfLists(_)
CountOfLists(lists) ==
    IF lists = << >> THEN 0 ELSE Len(Head(lists)) + CountOfLists(Tail(lists))

\* m is the mean of all the fractions of all the lists, 0 when there is none
IsMeanOverAll(m, lists) ==
    LET d == DenominatorsOfLists(lists)
        n == CountOfLists(lists)
    IN  IF n = 0 THEN FracEq(m, FracZero)
        ELSE m[1] * d * n = ScaledTotalOfLists(lists, d) * m[2]

AggregateComputed == computed.op = "aggregated" /\ ~computed.raised

\* C23: the run-level aggregate's mean relevance and mean novelty are the
\* means over all documents of all queries taken as one list, and its mean
\* reciprocal rank is the mean over queries of each query's stored
\* per-query reciprocal rank (0 for an empty query list).
C23_RunAggregateOverAllDocumentsAndStoredRanks ==
    AggregateComputed =>
        LET relevances == [ q \in DOMAIN query_list |->
                [ i \in DOMAIN query_list[q].retrieved_documents |->
                    Get(query_list[q].retrieved_documents[i]
                            .retrieved_document_metrics).relevance ] ]
            novelties == [ q \in DOMAIN query_list |->
                [ i \in DOMAIN query_list[q].retrieved_documents |->
                    Get(query_list[q].retrieved_documents[i]
                            .retrieved_document_metrics).novelty ] ]
            stored == [ q \in DOMAIN query_list |->
                Get(query_list[q].query_metrics)
                    .reciprocal_rank_of_first_relevant_document ]
            aggregate == Get(computed.value)
        IN  /\ IsMeanOverAll(aggregate.mean_relevance, relevances)
            /\ IsMeanOverAll(aggregate.mean_novelty, novelties)
            /\ IF query_list = << >>
               THEN FracEq(aggregate.mean_reciprocal_rank, FracZero)
               ELSE IsArithmeticMean(aggregate.mean_reciprocal_rank, stored)

\* the aggregate was computed over two queries with one and two documents,
\* whose stored reciprocal ranks differ from each other and, for the first
\* query, from the value its documents would give
C23_Witness ==
    /\ AggregateComputed
    /\ Len(query_list) = 2
    /\ Len(query_list[1].retrieved_documents) = 1
    /\ Len(query_list[2].retrieved_documents) = 2
    /\ Get(query_list[1].query_metrics)
           .reciprocal_rank_of_first_relevant_document = Frac(1, 3)
    /\ Get(query_list[2].query_metrics)
           .reciprocal_rank_of_first_relevant_document = FracZero
    /\ Get(query_list[1].retrieved_documents[1]
              .retrieved_document_metrics).relevance = FracOne
    /\ Get(query_list[2].retrieved_documents[1]
              .retrieved_document_metrics).relevance = Frac(1, 2)
    /\ FracEq(Get(computed.value).mean_reciprocal_rank, Frac(1, 6))

\* ------------------------------------------------------------------------
\* Properties of construct and evaluate under failures and concurrency
\* ------------------------------------------------------------------------

\* the errors of the retriever, the cache and the judge
CallFailures ==
    { "RetrieverError", "load", "save", "rewrite", "properties", "JudgeError" }

\* C24: if a judge call, a cache read or write, or the retriever fails for
\* any query of an engine, construct for that engine fails with that error
\* and returns no run: no partial run holding the queries completed before
\* the failure is ever returned.
C24_FailedConstructReturnsNoRun ==
    /\ [](\A e \in DOMAIN tasks :
            /\ tasks[e].error /= "" =>
                 /\ tasks[e].pc = "failed"
                 /\ IsNone(tasks[e].run)
            /\ ~IsNone(tasks[e].run) =>
                 Len(Get(tasks[e].run).per_query_results) = Len(queries))
    /\ [](outcome.status = "returned" =>
            \A k \in DOMAIN outcome.runs :
                Len(outcome.runs[k].per_query_results) = Len(queries))
    /\ [][\A e \in DOMAIN tasks :
            /\ tasks[e].pc = "failed" => tasks'[e] = tasks[e]
            /\ (tasks[e].pc /= "failed" /\ tasks'[e].pc = "failed"
                /\ tasks'[e].error \in CallFailures) =>
                 /\ IsNone(tasks'[e].run)
                 /\ tasks'[e].query_results = tasks[e].query_results]_vars

\* the judge failed while the second query's documents were scored: the
\* first query's result was complete, and the caller got the error
C24_Witness ==
    /\ "default" \in DOMAIN tasks
    /\ tasks["default"].pc = "failed"
    /\ tasks["default"].error = "JudgeError"
    /\ tasks["default"].query_index = 2
    /\ Len(tasks["default"].query_results) = 1
    /\ IsNone(tasks["default"].run)
    /\ outcome.status = "raised"
    /\ outcome.error = "JudgeError"

AllTasksEnded ==
    /\ tasks /= << >>
    /\ \A e \in DOMAIN tasks : tasks[e].pc \in { "done", "failed" }

\* C25: a failure in one engine's evaluation task aborts only that engine's
\* run: the other engines evaluated concurrently in the same evaluate call
\* are unaffected and their runs are still produced for the caller.
C25_OtherEnginesRunsReachTheCaller ==
    (AllTasksEnded /\ outcome.status \in { "returned", "raised" }) =>
        \A e \in DOMAIN tasks :
            tasks[e].pc = "done" =>
                \E k \in DOMAIN outcome.runs :
                    outcome.runs[k] = Get(tasks[e].run)

\* the values of one field of the metrics of a run's documents, query by
\* query
ValuesByQuery(run, field) ==
    [ q \in DOMAIN run.per_query_results |->
        [ i \in DOMAIN run.per_query_results[q].retrieved_documents |->
            IF field = "relevance"
            THEN Get(run.per_query_results[q].retrieved_documents[i]
                         .retrieved_document_metrics).relevance
            ELSE Get(run.per_query_results[q].retrieved_documents[i]
                         .retrieved_document_metrics).novelty ] ]

\* C26: evaluate with N distinctly named registered engines, all
\* succeeding, returns a collection with exactly N runs, one per engine
\* name, and each run's aggregate is computed only from that engine's own
\* per-query results, whatever order the engine tasks complete in.
C26_OneRunPerEngineFromItsOwnResults ==
    outcome.status = "returned" =>
        /\ Len(outcome.runs) = Len(engines)
        /\ \A e \in Range(engines) :
             Cardinality({ k \in DOMAIN outcome.runs :
                             outcome.runs[k].engine_name = e }) = 1
        /\ \A k \in DOMAIN outcome.runs :
            LET run == outcome.runs[k]
                aggregate == Get(run.overall_retrieval_metrics)
            IN  /\ Len(run.per_query_results) = Len(queries)
                /\ \A i \in DOMAIN run.per_query_results :
                     DocumentContents(run.per_query_results[i])
                         = returned[run.engine_name][i]
                /\ IsMeanOverAll(aggregate.mean_relevance,
                                 ValuesByQuery(run, "relevance"))
                /\ IsMeanOverAll(aggregate.mean_novelty,
                                 ValuesByQuery(run, "novelty"))
                /\ IsArithmeticMean(aggregate.mean_reciprocal_rank,
                     [ q \in DOMAIN run.per_query_results |->
                         Get(run.per_query_results[q].query_metrics)
                             .reciprocal_rank_of_first_relevant_document ])

\* evaluate returned the runs of two engines whose retrievers returned
\* different documents and whose mean relevances differ, the engine
\* registered second having completed first
C26_Witness ==
    /\ outcome.status = "returned"
    /\ Len(engines) = 2
    /\ Len(queries) = 2
    /\ returned[engines[1]] /= returned[engines[2]]
    /\ tasks[engines[2]].completed_as = 1
    /\ ~FracEq(Get(outcome.runs[1].overall_retrieval_metrics).mean_relevance,
               Get(outcome.runs[2].overall_retrieval_metrics).mean_relevance)

\* C27 as stated: the runs are collected in the order in which the engine
\* tasks completed.
C27_RunsInCompletionOrder ==
    outcome.status = "returned" =>
        \A k \in DOMAIN outcome.runs :
            tasks[outcome.runs[k].engine_name].completed_as = k

\* C27: the runs of the collection are in engine registration order, the
\* order of the engine tasks handed to gather, whatever order the tasks
\* completed in.
C27_RunsInRegistrationOrder ==
    outcome.status = "returned" =>
        /\ Len(outcome.runs) = Len(engines)
        /\ \A k \in DOMAIN outcome.runs :
               outcome.runs[k].engine_name = engines[k]

\* evaluate returned although the engine registered second completed before
\* the engine registered first
C27_Witness ==
    /\ outcome.status = "returned"
    /\ Len(engines) = 2
    /\ tasks[engines[2]].completed_as = 1
    /\ tasks[engines[1]].completed_as = 2

\* what the judge answers for a rubric it has been asked for
JudgedEnv(question) ==
    [ fail_at |-> "none",
      rewritten_questions |-> judge.rewrites[question],
      properties |-> judge.properties[question] ]

\* the metrics an evaluator gives a list of documents, one after the other,
\* with the answers the judge has given
RECURSIVE ScoredAlone(_, _)
ScoredAlone(self, contents) ==
    IF contents = << >> THEN << >>
    ELSE LET properties == Get(self.validation_criteria).properties
             done == create_retrieved_document_metrics(self,
                         [ fails |-> FALSE,
                           evaluation |->
                               judge.evaluations[<< Head(contents), properties >>] ])
         IN  << done.result >> \o ScoredAlone(done.self, Tail(contents))

\* the metrics of the documents of one query when the engine is evaluated
\* alone, with an evaluator and a cache of its own
MetricsAlone(question, contents) ==
    ScoredAlone(set_question(reset([ question |-> "" ]), DictOf({}, None), TRUE,
                             question, JudgedEnv(question)).self,
                contents)

\* C28: concurrent engine tasks share no mutable state other than the
\* cache, so with a deterministic judge the relevance and novelty values in
\* an engine's run are the same under every interleaving with other engines
\* as when that engine is evaluated alone.
C28_RunValuesAsWhenEvaluatedAlone ==
    judge.deterministic =>
        \A e \in DOMAIN tasks :
            tasks[e].pc = "done" =>
                LET run == Get(tasks[e].run) IN
                \A i \in DOMAIN run.per_query_results :
                    [ j \in DOMAIN run.per_query_results[i].retrieved_documents |->
                        run.per_query_results[i].retrieved_documents[j]
                            .retrieved_document_metrics ]
                    = MetricsAlone(queries[i], returned[e][i])

\* the first engine's run is complete while the second engine, which has
\* finished the first query, is scoring the documents of the second; the
\* first engine's run holds a novelty that is neither 0 nor 1
C28_Witness ==
    /\ judge.deterministic
    /\ Len(engines) = 2
    /\ Len(queries) = 2
    /\ tasks[engines[1]].pc = "done"
    /\ tasks[engines[2]].pc = "score"
    /\ tasks[engines[2]].query_index = 2
    /\ Len(tasks[engines[2]].metrics) = 1
    /\ returned[engines[1]][1] /= returned[engines[2]][1]
    /\ \E i \in DOMAIN queries :
       \E j \in DOMAIN Get(tasks[engines[1]].run)
                          .per_query_results[i].retrieved_documents :
        LET novelty == Get(Get(tasks[engines[1]].run).per_query_results[i]
                               .retrieved_documents[j]
                               .retrieved_document_metrics).novelty
        IN  ~FracLe(novelty, FracZero) /\ ~FracLe(FracOne, novelty)

\* ------------------------------------------------------------------------
\* Properties of SearchEvaluationRunBuilder
\* ------------------------------------------------------------------------

RunBuildCalled == srb_last.op = "build"

\* C29: SearchEvaluationRunBuilder.build() fails, returning no run, when
\* the test configuration has not been set or when the engine name has not
\* been set since the last reset; a run that is built holds the values the
\* setters were given, never a default in place of a missing one.
C29_BuildFailsWithoutConfigurationOrName ==
    RunBuildCalled =>
        /\ ("test_configuration" \notin DOMAIN srb_ghost
            \/ "engine_name" \notin DOMAIN srb_ghost) =>
               /\ srb_last.raised
               /\ IsNone(srb_last.value)
        /\ ~srb_last.raised =>
               /\ Get(srb_last.value).test_configuration
                      = srb_ghost["test_configuration"]
               /\ Get(srb_last.value).engine_name = srb_ghost["engine_name"]

\* build() raised on a builder whose test configuration, query results and
\* retrieval metrics were set and whose engine name was not
C29_Witness ==
    /\ RunBuildCalled
    /\ srb_last.raised
    /\ DOMAIN srb_ghost
           = { "test_configuration", "query_results", "retrieval_metrics" }
    /\ srb.query_results /= << >>

\* ------------------------------------------------------------------------
\* Properties of the novelty history
\* ------------------------------------------------------------------------

\* what the novelty history holds for a key, False when it has no entry
Marked(history, key) == DictGet(history, key, FALSE)

\* C30: at every point between two set_question calls, the novelty history
\* marks a rubric property as satisfied if and only if some document scored
\* since the last set_question satisfied that property; marking an
\* already-true property is a no-op and an entry that is true never
\* reverts to false before the next set_question.
C30_HistoryMarksExactlyTheSatisfiedProperties ==
    /\ [](RubricLoaded =>
            \A i \in DOMAIN LoadedProperties :
                Marked(evaluator.validation_criterias_met_history,
                       LoadedProperties[i])
                    <=> i \in scored.now)
    /\ [][last'.op = "score" =>
            \A k \in DOMAIN evaluator.validation_criterias_met_history :
                evaluator.validation_criterias_met_history[k] =>
                    Marked(evaluator'.validation_criterias_met_history, k)]_vars

\* the history read the way _calculate_novelty reads it, under the
\* sanitized name of the property, holds exactly what was satisfied since
\* the last set_question
HistoryMarksSatisfiedSanitizedNames ==
    RubricLoaded =>
        \A i \in DOMAIN LoadedProperties :
            Marked(evaluator.validation_criterias_met_history,
                   sanitize_property_name(LoadedProperties[i]))
                <=> i \in scored.now

\* ------------------------------------------------------------------------
\* C31  order of the steps of one construct call
\* ------------------------------------------------------------------------

StepNames == { "retriever", "set_question", "score", "build" }

\* the retriever, set_question, score and build calls of a task, in the
\* order it made them
StepsOf(task) == SelectSeq(task.trace, LAMBDA c : c.op \in StepNames)

\* the steps for the query at position i whose retriever returned n documents
QuerySteps(i, n) ==
    << call("retriever", i, 0), call("set_question", i, 0) >>
    \o [ d \in 1..n |-> call("score", i, d) ]
    \o << call("build", i, 0) >>

RECURSIVE ExpectedSteps(_, _)
ExpectedSteps(lists, k) ==
    IF k = 0 THEN << >>
    ELSE ExpectedSteps(lists, k - 1) \o QuerySteps(k, Len(lists[k]))

IsPrefix(s, t) == Len(s) <= Len(t) /\ s = SubSeq(t, 1, Len(s))

\* C31: within one engine's construct call the steps for each query occur
\* in the order retriever call, set_question, one score call per returned
\* document in rank order, build; the queries are processed one after
\* another in input order, so that no call for query i+1 comes before the
\* build for query i, and a finished construct has made exactly these calls.
C31_StepsInQueryAndRankOrder ==
    \A e \in DOMAIN tasks :
        LET k == Len(returned[e])
            so_far == ExpectedSteps(returned[e], k)
            coming == IF k < Len(queries)
                      THEN << call("retriever", k + 1, 0) >> ELSE << >>
        IN  /\ IsPrefix(StepsOf(tasks[e]), so_far \o coming)
            /\ tasks[e].pc = "done" =>
                   /\ k = Len(queries)
                   /\ StepsOf(tasks[e]) = so_far

\* a construct call that finished two queries, the first with two documents
\* and the second with one
C31_Witness ==
    /\ Len(engines) = 1
    /\ DOMAIN tasks = Range(engines)
    /\ tasks[engines[1]].pc = "done"
    /\ Len(queries) = 2
    /\ Len(returned[engines[1]][1]) = 2
    /\ Len(returned[engines[1]][2]) = 1
    /\ Len(StepsOf(tasks[engines[1]])) = 9

\* ------------------------------------------------------------------------
\* C32  one generation of a rubric for all engines
\* ------------------------------------------------------------------------

\* the judge has answered both generation calls of the task for the query
\* at position i
GeneratedRubricFor(e, i) ==
    /\ \E j \in DOMAIN tasks[e].trace :
           tasks[e].trace[j] = call("properties", i, 0)
    /\ ~ ( /\ tasks[e].pc = "failed"
           /\ tasks[e].error = "properties"
           /\ tasks[e].query_index = i )

\* the task holds a rubric for the query at position i
HoldsRubric(e, i) ==
    /\ tasks[e].query_index = i
    /\ tasks[e].relevance_evaluator.question = queries[i]
    /\ ~IsNone(tasks[e].relevance_evaluator.validation_criteria)

\* C32: across all engines of one evaluate call with caching enabled, the
\* judge generates the rubric for a given question at most once, every
\* other use loads it from the cache, and so all engines score the
\* question's documents against the same property list.
C32_RubricGeneratedAtMostOnce ==
    \A i \in DOMAIN queries :
        /\ Cardinality({ e \in DOMAIN tasks : GeneratedRubricFor(e, i) }) <= 1
        /\ \A e1, e2 \in DOMAIN tasks :
               (HoldsRubric(e1, i) /\ HoldsRubric(e2, i)) =>
                   Get(tasks[e1].relevance_evaluator.validation_criteria).properties
                   = Get(tasks[e2].relevance_evaluator.validation_criteria).properties

\* ------------------------------------------------------------------------
\* C33  concurrent puts for one key
\* ------------------------------------------------------------------------

\* the primary key a writer puts
PutKey(e) == Get(writers[e].session).instance.id

\* C33: concurrent puts for the same (question, perspective) from
\* different engine tasks are tolerated: neither put fails, and once both
\* have completed the table holds exactly one record for the key, whose
\* content is the content of one of the two puts.
C33_ConcurrentPutsTolerated ==
    \A e1, e2 \in DOMAIN writers :
        ( /\ e1 /= e2
          /\ writers[e1].pc /= "idle"
          /\ writers[e2].pc /= "idle"
          /\ PutKey(e1) = PutKey(e2) ) =>
            /\ writers[e1].pc /= "failed"
            /\ (writers[e1].pc = "saved" /\ writers[e2].pc = "saved") =>
                   /\ PutKey(e1) \in DOMAIN table
                   /\ table[PutKey(e1)] \in
                          { Get(writers[e1].session).instance,
                            Get(writers[e2].session).instance }

\* ------------------------------------------------------------------------
\* C34  no judge call is made twice
\* ------------------------------------------------------------------------

JudgeCallNames == { "rewrite", "properties", "evaluate" }

\* the judge calls among the calls
JudgeCallsOf(calls) == SelectSeq(calls, LAMBDA c : c.op \in JudgeCallNames)

\* how often the task made the call
TimesCalled(task, c) ==
    Cardinality({ j \in DOMAIN task.trace : task.trace[j] = c })

\* the calls a step of the task added
AddedCalls(e) ==
    SubSeq(tasks'[e].trace, Len(tasks[e].trace) + 1, Len(tasks'[e].trace))

\* every score call of the task asked the judge once, right away; the
\* generation calls for a query are one rewrite call directly followed by
\* at most one property call; a task that a judge call failed made that
\* call last
JudgeAskedOnce(e) ==
    LET task == tasks[e]
        trace == task.trace
    IN  /\ \A j \in DOMAIN trace :
            trace[j].op = "score" =>
                LET asked == call("evaluate", trace[j].query, trace[j].document)
                IN  /\ TimesCalled(task, trace[j]) = 1
                    /\ TimesCalled(task, asked) = 1
                    /\ j < Len(trace)
                    /\ trace[j + 1] = asked
        /\ \A i \in DOMAIN queries :
            /\ TimesCalled(task, call("rewrite", i, 0)) <= 1
            /\ TimesCalled(task, call("properties", i, 0)) <= 1
        /\ \A j \in DOMAIN trace :
            trace[j].op = "properties" =>
                j > 1 /\ trace[j - 1] = call("rewrite", trace[j].query, 0)
        /\ task.pc = "done" =>
            \A i \in DOMAIN returned[e] :
            \A d \in DOMAIN returned[e][i] :
                TimesCalled(task, call("evaluate", i, d)) = 1
        /\ (task.pc = "failed"
            /\ task.error \in { "rewrite", "properties", "JudgeError" }) =>
                trace[Len(trace)].op =
                    IF task.error = "JudgeError" THEN "evaluate" ELSE task.error

\* the judge calls of a set_question step: none on a cache hit or a failed
\* cache read, on a miss one rewrite call followed by one property call,
\* up to the call that failed
GenerationCallsOnMiss(e) ==
    (tasks[e].pc = "set_question" /\ tasks'[e] /= tasks[e]) =>
        LET i == tasks[e].query_index
            miss == IsNone(load_cache(table, queries[i], DefaultPerspective))
            asked == JudgeCallsOf(AddedCalls(e))
            failed == tasks'[e].pc = "failed"
        IN  IF ~miss \/ (failed /\ tasks'[e].error = "load")
            THEN asked = << >>
            ELSE IF failed /\ tasks'[e].error = "rewrite"
            THEN asked = << call("rewrite", i, 0) >>
            ELSE asked = << call("rewrite", i, 0), call("properties", i, 0) >>

\* C34: no judge call is retried: in one engine's run each returned
\* document causes exactly one scoring call and each query with a cache
\* miss causes exactly one rewrite call followed by exactly one
\* property-generation call; after a failed call the engine's task issues
\* no further judge call.
C34_NoJudgeCallRetried ==
    /\ [](\A e \in DOMAIN tasks : JudgeAskedOnce(e))
    /\ [][\A e \in DOMAIN tasks : GenerationCallsOnMiss(e)]_vars
    /\ [][\A e \in DOMAIN tasks :
            tasks[e].pc = "failed" => tasks'[e] = tasks[e]]_vars

\* a construct call that finished after a cache miss and two scored
\* documents: the two generation calls and one scoring call per document
C34_Witness ==
    /\ Len(engines) = 1
    /\ DOMAIN tasks = Range(engines)
    /\ tasks[engines[1]].pc = "done"
    /\ Len(queries) = 1
    /\ JudgeCallsOf(tasks[engines[1]].trace)
         = << call("rewrite", 1, 0), call("properties", 1, 0),
              call("evaluate", 1, 1), call("evaluate", 1, 2) >>

\* ------------------------------------------------------------------------
\* C35  the normalized discounted cumulative gain
\* ------------------------------------------------------------------------

\* the list is in descending order
Descending(s) == \A i, j \in DOMAIN s : i < j => FracLe(s[j], s[i])

\* the orderings of the same relevances that are in descending order
IdealOrderings(s) ==
    { t \in [ DOMAIN s -> Range(s) ] :
        /\ Descending(t)
        /\ \E p \in [ DOMAIN s -> DOMAIN s ] :
              /\ \A i, j \in DOMAIN s : p[i] = p[j] => i = j
              /\ \A i \in DOMAIN s : t[i] = s[p[i]] }

\* the relevance at position i (from 1) divided by i, as a number of
\* 144ths: exact for the relevance values above at positions up to four
In144ths(x, i) == (x[1] * 144) \div (x[2] * i)

\* relevance_1 / 1 + relevance_2 / 2 + ..., as a number of 144ths
DiscountedSum(s, n) ==
    LET Upto[k \in 0..n] ==
            IF k = 0 THEN 0 ELSE Upto[k - 1] + In144ths(s[k], k)
    IN  Frac(Upto[n], 144)

ScoredOneMore == scored'.count = scored.count + 1

\* the number of newly met criteria that the novelty of the document just
\* scored was computed from: novelty times the number of met criteria
NewlyCounted ==
    LET novelty == Get(last'.result).novelty
        met == Cardinality({ k \in DOMAIN last'.evaluation : last'.evaluation[k] })
    IN  (novelty[1] * met) \div novelty[2]

\* C36: over any sequence of documents scored between two set_question
\* calls the numbers of newly satisfied properties counted for novelty add
\* up to the number of distinct properties satisfied by at least one of
\* those documents: each scored document adds to the count exactly the
\* properties it is the first to satisfy, and a document whose satisfied
\* properties were all satisfied by earlier documents gets novelty 0.
C36_NewlyCountedAddUpToDistinctSatisfied ==
    [][ScoredOneMore =>
          /\ NewlyCounted = Cardinality(scored'.now \ scored.now)
          /\ scored'.now = scored.now =>
                FracEq(Get(last'.result).novelty, FracZero)]_vars

\* the same for rubrics whose sanitized names are pairwise distinct
NewlyCountedAddUpWhenNamesDistinct ==
    [][(ScoredOneMore /\ NamesDistinct) =>
          /\ NewlyCounted = Cardinality(scored'.now \ scored.now)
          /\ scored'.now = scored.now =>
                FracEq(Get(last'.result).novelty, FracZero)]_vars

\* ------------------------------------------------------------------------
\* C37  a failed judge call inside score
\* ------------------------------------------------------------------------

\* the step is a score whose judge call raised
JudgeCallFailed == last'.op = "score" /\ last'.error = "JudgeError"

\* the answers the judge can give for the loaded rubric
PossibleEvaluations ==
    [ sanitized_properties(LoadedProperties) -> BOOLEAN ]

\* C37: if the judge call inside score fails, score raises before touching
\* the novelty history: the history and the loaded rubric are exactly as
\* before the call, so that the next document gets the same novelty as if
\* the failed call had never been made.
C37_FailedScoreLeavesHistoryAndRubric ==
    [][JudgeCallFailed =>
          /\ last'.raised
          /\ evaluator'.validation_criterias_met_history
                = evaluator.validation_criterias_met_history
          /\ evaluator'.validation_criteria = evaluator.validation_criteria
          /\ scored' = scored
          /\ \A evaluation \in PossibleEvaluations :
                calculate_novelty(evaluator', evaluation)
                    = calculate_novelty(evaluator, evaluation)]_vars

\* the judge call failed for the second document, after the first had
\* satisfied a property
C37_Witness ==
    /\ last.op = "score" /\ last.error = "JudgeError"
    /\ RubricLoaded
    /\ scored.count = 1 /\ scored.now /= {}
    /\ \E k \in DOMAIN evaluator.validation_criterias_met_history :
           evaluator.validation_criterias_met_history[k]

\* ------------------------------------------------------------------------
\* C38  a retriever that returns an empty list
\* ------------------------------------------------------------------------

\* the queries for which the engine's retriever returned an empty list
EmptyResults(e) == { i \in DOMAIN returned[e] : returned[e][i] = << >> }

\* C38: if the retriever returns an empty list for any query, construct
\* fails for that engine: the build of the query result rejects the empty
\* result list, and no run is produced for the engine, even when its other
\* queries returned documents.
C38_EmptyRetrieverResultFailsConstruct ==
    \A e \in DOMAIN tasks :
        EmptyResults(e) /= {} =>
            /\ tasks[e].pc /= "done"
            /\ IsNone(tasks[e].run)
            /\ outcome.status /= "returned"
            /\ \A i \in EmptyResults(e) :
                  TimesCalled(tasks[e], call("build", i, 0)) = 1 =>
                      /\ tasks[e].pc = "failed"
                      /\ tasks[e].error = "ValueError: results"
                      /\ Len(tasks[e].query_results) = i - 1

\* the retriever returned documents for the first query and an empty list
\* for the second: the build for the second query raised
C38_Witness ==
    /\ Len(engines) = 1
    /\ DOMAIN tasks = Range(engines)
    /\ Len(returned[engines[1]]) = 2
    /\ returned[engines[1]][1] /= << >>
    /\ returned[engines[1]][2] = << >>
    /\ tasks[engines[1]].pc = "failed"
    /\ tasks[engines[1]].error = "ValueError: results"
    /\ outcome.status = "raised"

\* ------------------------------------------------------------------------
\* C39  calculate_information_gain only measures
\* ------------------------------------------------------------------------

\* C39: for every relation set and every pair (a, b), including a pair that
\* is already a direct relation, the direct relations that all_relations
\* returns are the same after calculate_information_gain(a, b) as before it.
C39_InformationGainKeepsDirectRelations ==
    reasoned.op = "calculate_information_gain" =>
        all_relations(relations) = reasoned.before

\* the same for the pairs that are not a direct relation
InformationGainKeepsRelationsOfNewPair ==
    (reasoned.op = "calculate_information_gain"
     /\ << reasoned.a, reasoned.b >> \notin reasoned.before) =>
        all_relations(relations) = reasoned.before

====
